---- MODULE Spec2Model ----
(***************************************************************************)
(* Elliptic-curve point arithmetic over GF(p) in Jacobian coordinates and  *)
(* the three precomputation engines of point_mul.cpp: fixed-base           *)
(* (PointGFp_Base_Point_Precompute), variable-point                        *)
(* (PointGFp_Var_Point_Precompute) and multi-scalar                        *)
(* (PointGFp_Multi_Point_Precompute).                                      *)
(*                                                                         *)
(* Curves are small (p = 11, p = 7) so every point, scalar and mask can be *)
(* enumerated.  Big integers are TLA+ integers (sign and magnitude as in   *)
(* BigInt); machine words are WordBits wide.  The bodies of PointGFp::add, *)
(* add_affine, mult2, force_affine, force_all_affine, on_the_curve,        *)
(* randomize_repr and operator== live in point_gfp.cpp; they are modelled  *)
(* from the design document's description of the Jacobian formulas.        *)
(***************************************************************************)
EXTENDS Integers, Sequences, FiniteSets, TLC

\* ------------------------------------------------------------------ bounds

\* Width of a machine word in bits (scaled down so that a coordinate of the
\* p = 11 curve spans more than one word).
WordBits == 2
\* Largest scalar passed to mul (scalars range over -MinusK..MaxK).
MaxK == 15
\* Most negative scalar is -MinusK.
MinusK == 1
\* Number of RNG output streams used when a table is randomized at construction.
NumSeeds == 1
\* Blinding masks tried for a group order: 0..MaxMask and the largest one.
MaxMask == 3
\* Largest magnitude of a multi_exp scalar.
MaxZ == 4
\* Largest x coordinate of the points taken where a subset of E1 is used:
\* the first point of the multi-scalar engine, the operand of a point
\* operation, the point both engines are built for.
MaxPX == 3
\* Jacobian representations of a point are its rescalings by 1..MaxRep.
MaxRep == 2
\* Longest list given to force_all_affine.
MaxN == 3
\* Largest scalar of a call made concurrently with another (multi_exp
\* scalars range over -MaxConcK..MaxConcK).
MaxConcK == 1
\* Width of a byte of a point encoding in bits (scaled down so that a
\* coordinate of the p = 11 curve takes more than one byte; the tags
\* 2, 3, 4, 6, 7 still fit in a byte).
ByteBits == 3

\* ------------------------------------------------------------ big integers

Abs(n) == IF n < 0 THEN -n ELSE n

RECURSIVE BitsOf(_)
BitsOf(n) == IF n = 0 THEN 0 ELSE 1 + BitsOf(n \div 2)

\* BigInt::bits(): bit length of the magnitude.
bits(n) == BitsOf(Abs(n))

\* BigInt::is_negative()
is_negative(n) == n < 0

\* BigInt::get_substring(offset, length): bits of the magnitude.
get_substring(n, offset, length) == (Abs(n) \div (2 ^ offset)) % (2 ^ length)

\* round_up(n, align_to) of rounding.h
round_up(n, align_to) ==
    IF n % align_to = 0 THEN n ELSE n + (align_to - (n % align_to))

\* BigInt::sig_words()
sig_words(n) == round_up(bits(n), WordBits) \div WordBits

WordMod == 2 ^ WordBits

\* BigInt::encode_words(out, size): little-endian words of the magnitude.
encode_words(n, size) ==
    [i \in 1..size |-> (Abs(n) \div (WordMod ^ (i - 1))) % WordMod]

RECURSIVE FromWords(_)
\* The integer a little-endian word array holds.
FromWords(ws) ==
    IF Len(ws) = 0 THEN 0 ELSE Head(ws) + WordMod * FromWords(Tail(ws))

\* CT::all_zeros(words, size)
all_zeros(ws) == \A i \in 1..Len(ws) : ws[i] = 0

RECURSIVE BitOr(_, _)
\* Bitwise OR of two words.
BitOr(u, v) ==
    IF u = 0 THEN v
    ELSE IF v = 0 THEN u
    ELSE (IF (u % 2 = 1) \/ (v % 2 = 1) THEN 1 ELSE 0)
         + 2 * BitOr(u \div 2, v \div 2)

\* CT::Mask<word>::is_equal(w, c).if_set_return(v)
if_set_return(w, c, v) == IF w = c THEN v ELSE 0

\* ---------------------------------------------------------------- the field

\* Reduction into [0, p).
Mod(n, p) == n % p

\* Modular inverse (0 for a non-invertible argument).
Inv(n, p) ==
    IF Mod(n, p) = 0 THEN 0
    ELSE CHOOSE i \in 1..(p - 1) : Mod(i * n, p) = 1

\* ------------------------------------------------------------------- curves

Curve(p, a, b) == [p |-> p, a |-> a, b |-> b]

\* y^2 = x^3 + x + 6 over GF(11): a group of prime order 13.
E1 == Curve(11, 1, 6)
\* y^2 = x^3 + x + 3 over GF(7): a cyclic group of order 6.
E2 == Curve(7, 1, 3)
\* y^2 = x^3 + x + 5 over GF(11): same p and a as E1, another b.
E3 == Curve(11, 1, 5)
\* y^2 = x^3 + 3 over GF(7): a group of prime order 13, one bit longer than p.
E4 == Curve(7, 0, 3)

\* CurveGFp::get_p_words()
get_p_words(c) == sig_words(c.p)

\* ------------------------------------------------------------------- points

Pt(c, x, y, z) == [curve |-> c, x |-> x, y |-> y, z |-> z]

\* PointGFp(curve): the zero point.
Zero(c) == Pt(c, 0, 1, 0)

\* PointGFp(curve, x, y): a point from affine coordinates.
Affine(c, x, y) == Pt(c, x, y, 1)

is_zero(P) == P.z = 0

is_affine(P) == P.z = 1

\* Y^2 = X^3 + a X Z^4 + b Z^6 (mod p); the zero point is on the curve.
on_the_curve(P) ==
    LET p  == P.curve.p
        z2 == Mod(P.z * P.z, p)
        z4 == Mod(z2 * z2, p)
        z6 == Mod(z4 * z2, p)
    IN  \/ is_zero(P)
        \/ Mod(P.y * P.y, p)
             = Mod(P.x * P.x * P.x + P.curve.a * P.x * z4 + P.curve.b * z6, p)

\* Jacobian doubling of a non-zero point with Y /= 0, given Y^2 and Z^2.
Doubled(P, p, y2, z2) ==
    LET S  == Mod(4 * P.x * y2, p)
        M  == Mod(3 * P.x * P.x + P.curve.a * z2 * z2, p)
        x3 == Mod(M * M - 2 * S, p)
    IN  Pt(P.curve, x3, Mod(M * (S - x3) - 8 * y2 * y2, p),
           Mod(2 * P.y * P.z, p))

\* PointGFp::mult2: Jacobian doubling.
mult2(P) ==
    IF is_zero(P) THEN P
    ELSE IF P.y = 0 THEN Zero(P.curve)
    ELSE Doubled(P, P.curve.p, Mod(P.y * P.y, P.curve.p),
                 Mod(P.z * P.z, P.curve.p))

RECURSIVE mult2i(_, _)
\* PointGFp::mult2i: repeated doubling.
mult2i(P, i) == IF i = 0 THEN P ELSE mult2i(mult2(P), i - 1)

\* The sum of two distinct non-opposite points from U1, S1, H = U2 - U1,
\* r = S2 - S1 and Z1 * Z2.
Summed(c, U1, S1, H, r, zz) ==
    LET p  == c.p
        H2 == Mod(H * H, p)
        H3 == Mod(H2 * H, p)
        x3 == Mod(r * r - H3 - 2 * U1 * H2, p)
    IN  Pt(c, x3, Mod(r * (U1 * H2 - x3) - S1 * H3, p), Mod(zz * H, p))

\* Addition once U1, S1, U2, S2 are known: equal points are doubled, opposite
\* points give the zero point.
AddCases(P, U1, S1, U2, S2, zz) ==
    IF Mod(U2 - U1, P.curve.p) = 0
    THEN (IF Mod(S2 - S1, P.curve.p) = 0 THEN mult2(P) ELSE Zero(P.curve))
    ELSE Summed(P.curve, U1, S1, Mod(U2 - U1, P.curve.p),
                Mod(S2 - S1, P.curve.p), zz)

\* Jacobian addition of (x2, y2, z2) to a non-zero P.
AddJacobian(P, x2, y2, z2) ==
    LET p == P.curve.p
    IN  AddCases(P, Mod(P.x * z2 * z2, p), Mod(P.y * z2 * z2 * z2, p),
                 Mod(x2 * P.z * P.z, p), Mod(y2 * P.z * P.z * P.z, p),
                 Mod(P.z * z2, p))

\* PointGFp::add, array version: an all-zero x and z is the zero point and
\* leaves *this alone; a zero *this takes the other point's coordinates.
add_words(P, x_words, y_words, z_words) ==
    IF all_zeros(x_words) /\ all_zeros(z_words) THEN P
    ELSE IF is_zero(P)
    THEN Pt(P.curve, FromWords(x_words), FromWords(y_words), FromWords(z_words))
    ELSE AddJacobian(P, FromWords(x_words), FromWords(y_words),
                     FromWords(z_words))

\* PointGFp::add_affine, array version: the other point has Z = 1; all-zero
\* x and y leave *this alone.
add_affine_words(P, x_words, y_words) ==
    IF all_zeros(x_words) /\ all_zeros(y_words) THEN P
    ELSE IF is_zero(P)
    THEN Pt(P.curve, FromWords(x_words), FromWords(y_words), 1)
    ELSE AddJacobian(P, FromWords(x_words), FromWords(y_words), 1)

\* The words of a coordinate as add(other) passes them.
CoordWords(P, v) == encode_words(v, get_p_words(P.curve))

\* PointGFp::add(other, pool) once the curve check has passed.
add(P, other) ==
    add_words(P, CoordWords(P, other.x), CoordWords(P, other.y),
              CoordWords(P, other.z))

\* PointGFp::add_affine(other, pool) once the curve check has passed.
add_affine(P, other) ==
    add_affine_words(P, CoordWords(P, other.x), CoordWords(P, other.y))

\* PointGFp::plus(other, pool)
plus(P, other) == add(P, other)

\* PointGFp::double_of(pool)
double_of(P) == mult2(P)

\* negate with Y replaced even when the point is the zero point.
negate_Always(P) == [P EXCEPT !.y = P.curve.p - P.y]

\* PointGFp::negate()
negate(P) == IF ~is_zero(P) THEN [P EXCEPT !.y = P.curve.p - P.y] ELSE P

\* get_affine_x: X / Z^2
get_affine_x(P) ==
    LET zi == Inv(P.z, P.curve.p) IN Mod(P.x * zi * zi, P.curve.p)

\* get_affine_y: Y / Z^3
get_affine_y(P) ==
    LET zi == Inv(P.z, P.curve.p) IN Mod(P.y * zi * zi * zi, P.curve.p)

\* force_affine: this point with Z = 1.
force_affine(P) == Pt(P.curve, get_affine_x(P), get_affine_y(P), 1)

\* operator==: equality of the represented affine points.
PointEq(P, Q) ==
    /\ P.curve = Q.curve
    /\ IF is_zero(P) \/ is_zero(Q) THEN is_zero(P) /\ is_zero(Q)
       ELSE /\ get_affine_x(P) = get_affine_x(Q)
            /\ get_affine_y(P) = get_affine_y(Q)

\* (X, Y, Z) -> (r^2 X, r^2 Y, r Z): Y scaled like X.
Rescale_YLikeX(P, r) ==
    LET p == P.curve.p
    IN  Pt(P.curve, Mod(P.x * r * r, p), Mod(P.y * r * r, p), Mod(P.z * r, p))

\* (X, Y, Z) -> (r^2 X, r^3 Y, r Z)
Rescale(P, r) ==
    LET p == P.curve.p
    IN  Pt(P.curve, Mod(P.x * r * r, p), Mod(P.y * r * r * r, p), Mod(P.z * r, p))


\* force_all_affine with the back-substitution leaving out the product of the
\* Z coordinates before point i.
force_all_affine_NoPrefix(points) ==
    [i \in 1..Len(points) |->
        LET p      == points[i].curve.p
            n      == Len(points)
            RECURSIVE prod(_)
            prod(j) == IF j = 0 THEN 1 ELSE Mod(prod(j - 1) * points[j].z, p)
            RECURSIVE s(_)
            s(j)   == IF j = n THEN Inv(prod(n), p)
                      ELSE Mod(s(j + 1) * points[j + 1].z, p)
            z_inv  == s(i)
            z2_inv == Mod(z_inv * z_inv, p)
            z3_inv == Mod(z2_inv * z_inv, p)
        IN  Pt(points[i].curve, Mod(points[i].x * z2_inv, p),
               Mod(points[i].y * z3_inv, p), 1)]

\* PointGFp::force_all_affine: one shared inversion of the running product of
\* the Z coordinates, then back-substitution from the last point to the first.
RunningProduct(points, i) ==
    LET p == points[1].curve.p
        RECURSIVE c(_)
        c(j) == IF j = 1 THEN points[1].z ELSE Mod(c(j - 1) * points[j].z, p)
    IN  c(i)

\* s_inv on entry to the back-substitution step of point i: the inverse of
\* z_1 * ... * z_i.
SharedInverse(points, i) ==
    LET p == points[1].curve.p
        n == Len(points)
        RECURSIVE s(_)
        s(j) == IF j = n THEN Inv(RunningProduct(points, n), p)
                ELSE Mod(s(j + 1) * points[j + 1].z, p)
    IN  s(i)

force_all_affine(points) ==
    IF Len(points) <= 1
    THEN [i \in 1..Len(points) |-> force_affine(points[i])]
    ELSE [i \in 1..Len(points) |->
            LET p      == points[i].curve.p
                z_inv  == IF i = 1 THEN SharedInverse(points, 1)
                          ELSE Mod(SharedInverse(points, i)
                                   * RunningProduct(points, i - 1), p)
                z2_inv == Mod(z_inv * z_inv, p)
                z3_inv == Mod(z2_inv * z_inv, p)
            IN  Pt(points[i].curve, Mod(points[i].x * z2_inv, p),
                   Mod(points[i].y * z3_inv, p), 1)]

\* --------------------------------------------------------------- the engines

\* Evaluate v before it is passed on.
Force(v) == CHOOSE u \in {v} : TRUE

WINDOW_BITS == 3

WINDOW_SIZE == 2 ^ WINDOW_BITS - 1

blinding_size(group_order) == (bits(group_order) + 1) \div 2

\* Modular_Reducer::reduce for a non-negative argument.
reduce(mod_order, n) == n % mod_order

\* The number of windows with neither the blinding margin nor the extra bit.
T_bits_PrimeOnly(base, mod_order) ==
    round_up(bits(base.curve.p), WINDOW_BITS) \div WINDOW_BITS

\* Number of windows the fixed-base table is built for.
T_bits(base, mod_order) ==
    round_up(bits(base.curve.p) + blinding_size(mod_order) + 1, WINDOW_BITS)
        \div WINDOW_BITS

\* One window of the fixed-base table with g4 + g2 stored in the last entry
\* as well.
BaseWindow_SixTwice(g) ==
    LET g2 == Force(mult2(g))
        g4 == Force(mult2(g2))
        g3 == Force(plus(g2, g))
    IN  <<g, g2, g3, g4, plus(g4, g), plus(g4, g2), plus(g4, g2)>>

\* One window of the fixed-base table: g, 2g, 3g, 4g, 5g, 6g, 7g.
BaseWindow(g) ==
    LET g2 == Force(mult2(g))
        g4 == Force(mult2(g2))
        g3 == Force(plus(g2, g))
    IN  <<g, g2, g3, g4, plus(g4, g), plus(g4, g2), plus(g4, g3)>>

RECURSIVE BaseTable(_, _)
\* The Jacobian table T of the fixed-base constructor, n windows from g on.
BaseTable(g, n) ==
    IF n = 0 THEN <<>>
    ELSE BaseWindow(g) \o BaseTable(Force(mult2(mult2(mult2(g)))), n - 1)

RECURSIVE FlattenXY(_, _)
\* The flat word table m_W: x words then y words of every point.
FlattenXY(points, p_words) ==
    IF Len(points) = 0 THEN <<>>
    ELSE encode_words(Head(points).x, p_words)
         \o encode_words(Head(points).y, p_words)
         \o FlattenXY(Tail(points), p_words)

\* PointGFp_Base_Point_Precompute(base, mod_order)
BasePrecompute(base, mod_order) ==
    LET p_words == sig_words(base.curve.p)
        T == force_all_affine(BaseTable(base, T_bits(base, mod_order)))
    IN  [m_base_point |-> base,
         m_mod_order  |-> mod_order,
         m_p_words    |-> p_words,
         m_W          |-> FlattenXY(T, p_words)]

\* The n-th output of RNG stream seed, nbits wide.
RngBits(seed, n, nbits) == (5 * n + 3 * seed * n + seed + n * n) % (2 ^ nbits)

\* mask.randomize(rng, p_bits - 1, false); mask.set_bit(0)
RandomFactor(seed, n, p) == BitOr(RngBits(seed, n, bits(p) - 1), 1)

\* Every value the representation-randomizing factor can take on a curve.
Factors(c) == {BitOr(v, 1) : v \in 0..(2 ^ (bits(c.p) - 1) - 1)}

\* PointGFp::randomize_repr with the factor r drawn from the RNG.
randomize_repr(P, r) == Rescale(P, r)

RECURSIVE VarEntry(_, _)
\* U[i] of the variable-point constructor: i * point by doubling and adding.
VarEntry(point, i) ==
    IF i = 0 THEN Zero(point.curve)
    ELSE IF i = 1 THEN point
    ELSE IF i % 2 = 0 THEN Force(double_of(VarEntry(point, i \div 2)))
    ELSE Force(plus(VarEntry(point, i - 1), point))

RECURSIVE FlattenXYZ(_, _)
\* The flat word table m_T: x, y and z words of every point.
FlattenXYZ(points, p_words) ==
    IF Len(points) = 0 THEN <<>>
    ELSE encode_words(Head(points).x, p_words)
         \o encode_words(Head(points).y, p_words)
         \o encode_words(Head(points).z, p_words)
         \o FlattenXYZ(Tail(points), p_words)

\* PointGFp_Var_Point_Precompute(point, rng, pool); rng is a record
\* [seeded, seed].
VarPrecompute(point, rng) ==
    LET m_window_bits == 4
        p_words == sig_words(point.curve.p)
        n == 2 ^ m_window_bits
        U == [i \in 1..n |-> VarEntry(point, i - 1)]
        V == [i \in 1..n |->
                IF rng.seeded /\ i > 1
                THEN Rescale(U[i], RandomFactor(rng.seed, i - 1, point.curve.p))
                ELSE U[i]]
    IN  [m_curve       |-> point.curve,
         m_p_words     |-> p_words,
         m_window_bits |-> m_window_bits,
         m_T           |-> FlattenXYZ(V, p_words)]

\* The multi-scalar constructor testing x only.
MultiPrecompute_XOnly(x, y, garbage) ==
    LET x2 == Force(mult2(x))
        x3 == Force(plus(x2, x))
        y2 == Force(mult2(y))
        y3 == Force(plus(y2, y))
        M  == <<x, x2, x3,
                y, plus(y, x), plus(y, x2), plus(y, x3),
                y2, plus(y2, x), plus(y2, x2), plus(y2, x3),
                y3, plus(y3, x), plus(y3, x2), plus(y3, x3)>>
    IN  IF on_the_curve(x) = FALSE
        THEN [m_M |-> <<Zero(x.curve)>>, m_no_infinity |-> garbage]
        ELSE [m_M |-> M, m_no_infinity |-> FALSE]

\* The multi-scalar constructor leaving the table as it was built.
MultiPrecompute_NotConverted(x, y, garbage) ==
    LET x2 == Force(mult2(x))
        x3 == Force(plus(x2, x))
        y2 == Force(mult2(y))
        y3 == Force(plus(y2, y))
        M  == <<x, x2, x3,
                y, plus(y, x), plus(y, x2), plus(y, x3),
                y2, plus(y2, x), plus(y2, x2), plus(y2, x3),
                y3, plus(y3, x), plus(y3, x2), plus(y3, x3)>>
        no_infinity == \A i \in 1..Len(M) : ~is_zero(M[i])
    IN  IF on_the_curve(x) = FALSE \/ on_the_curve(y) = FALSE
        THEN [m_M |-> <<Zero(x.curve)>>, m_no_infinity |-> garbage]
        ELSE [m_M |-> M, m_no_infinity |-> no_infinity]

\* PointGFp_Multi_Point_Precompute(x, y); garbage is the value m_no_infinity
\* happens to hold when the constructor returns before assigning it.
MultiPrecompute(x, y, garbage) ==
    LET x2 == Force(mult2(x))
        x3 == Force(plus(x2, x))
        y2 == Force(mult2(y))
        y3 == Force(plus(y2, y))
        M  == <<x, x2, x3,
                y, plus(y, x), plus(y, x2), plus(y, x3),
                y2, plus(y2, x), plus(y2, x2), plus(y2, x3),
                y3, plus(y3, x), plus(y3, x2), plus(y3, x3)>>
        no_infinity == \A i \in 1..Len(M) : ~is_zero(M[i])
    IN  IF on_the_curve(x) = FALSE \/ on_the_curve(y) = FALSE
        THEN [m_M |-> <<Zero(x.curve)>>, m_no_infinity |-> garbage]
        ELSE [m_M |-> IF no_infinity THEN force_all_affine(M) ELSE M,
              m_no_infinity |-> no_infinity]

\* ------------------------------------------------------------------- state

VARIABLES
    eng,            \* the object this behaviour constructed
    m_base_point,   \* PointGFp_Base_Point_Precompute::m_base_point
    m_mod_order,    \* modulus of PointGFp_Base_Point_Precompute::m_mod_order
    m_curve,        \* PointGFp_Var_Point_Precompute::m_curve
    m_p_words,      \* m_p_words of the engine
    m_W,            \* fixed-base table, flat words
    m_T,            \* variable-point table, flat words
    m_M,            \* multi-scalar table, points
    m_no_infinity,  \* PointGFp_Multi_Point_Precompute::m_no_infinity
    op,             \* the operation that is running or has just ended
    pc,             \* position of the running call
    k,              \* scalar argument of mul
    group_order,    \* group_order argument of mul
    seeded,         \* rng.is_seeded() of the call's RNG
    scalar,         \* blinded or padded scalar
    windows,        \* local windows
    i,              \* loop counter
    R,              \* accumulator (R in mul, H in multi_exp, *this in point calls)
    z1, z2,         \* scalar arguments of multi_exp
    other,          \* argument of a point operation
    points,         \* the list force_all_affine works on
    points_in,      \* that list as it was when force_all_affine was called
    err,            \* exception the call ended with
    ret,            \* <<point>> once the call has returned one
    rng_calls,      \* uses of the RNG made by the running call
    max_read,       \* largest table index read by the running call, -1 if none
    prev,           \* <<point>> returned by the call before this one
    data,           \* bytes of a point encoding
    format,         \* PointGFp::Compression_Type the encoding was made with
    th,             \* the locals of each concurrent caller of a shared engine
    pool,           \* BN_Pool: the open scopes, each with the entries it took
    pool_in,        \* the pool as it was when the running call was entered
    m_receive_buffer,   \* Stream::m_receive_buffer, decrypted bytes not yet read
    m_send_buffer,      \* Stream::m_send_buffer, encrypted bytes not yet written
    io,             \* the blocking stream call that ran last, with what it met
    aop,            \* the AsyncReadOperation in flight
    drawn,          \* local mask of the running mul, 0 before it is drawn
    doublings,      \* doublings of the accumulator made by the running call
    additions,      \* table additions into the accumulator made by it
    receive_data,   \* m_receive_buffer.data(): the bytes, by arrival number
    arrived,        \* record payload bytes tls_record_received was given so far
    delivered,      \* the bytes the stream's callers were given, in order
    user_buffer     \* the bytes in the buffers of the operation in flight

engVars == <<eng, m_base_point, m_mod_order, m_curve, m_p_words, m_W, m_T, m_M,
             m_no_infinity>>

argVars == <<op, k, group_order, seeded, z1, z2, other, points, points_in>>

\* State of the parts that the engines and the point operations do not touch.
codecVars == <<data, format>>

concVars == <<th>>

poolVars == <<pool, pool_in>>

byteVars == <<receive_data, arrived, delivered, user_buffer>>

streamVars == <<m_receive_buffer, m_send_buffer, io, aop, byteVars>>

drawVars == <<drawn>>

countVars == <<doublings, additions>>

auxVars == <<data, format, th, pool, pool_in, m_receive_buffer, m_send_buffer,
             io, aop, drawn, doublings, additions, receive_data, arrived,
             delivered, user_buffer>>

\* That state before anything has run.
\* No blocking stream call has run.
NoCall ==
    [op |-> "", buffers |-> 0, ret |-> 0, ec |-> "", read |-> 0,
     handed |-> 0, before |-> 0]

\* No AsyncReadOperation exists.
NoOperation ==
    [buffers |-> 0, m_decodedBytes |-> 0, m_ec |-> "", co |-> "absent",
     pending |-> "none", calls |-> 0, handler_ec |-> "", handler_bytes |-> 0,
     direct |-> FALSE, reads |-> 0, given |-> "", before |-> 0]

StreamIdle ==
    /\ m_receive_buffer = 0 /\ m_send_buffer = 0
    /\ io = NoCall /\ aop = NoOperation
    /\ receive_data = <<>> /\ arrived = 0
    /\ delivered = <<>> /\ user_buffer = <<>>

AuxIdle ==
    /\ data = <<>> /\ format = 0 /\ th = <<>>
    /\ pool = <<>> /\ pool_in = <<>>
    /\ StreamIdle
    /\ drawn = 0 /\ doublings = 0 /\ additions = 0

vars == <<eng, m_base_point, m_mod_order, m_curve, m_p_words, m_W, m_T, m_M,
          m_no_infinity, op, pc, k, group_order, seeded, scalar, windows, i,
          R, z1, z2, other, points, points_in, err, ret, rng_calls, max_read,
          prev, data, format, th, pool, pool_in, m_receive_buffer,
          m_send_buffer, io, aop, drawn, doublings, additions>>

\* ---------------------------------------------------------------- test data

\* All affine pairs over the field of c, on the curve or not.
AffinePairs(c) == {Affine(c, x, y) : x \in 0..(c.p - 1), y \in 0..(c.p - 1)}

\* The non-zero points of c.
CurvePoints(c) == {P \in AffinePairs(c) : on_the_curve(P)}

RECURSIVE RefAcc(_, _, _)
\* Q after n further applications of +P (Q is evaluated before the next
\* application is started).
RefAcc(Q, n, P) ==
    IF is_zero(Q) /\ n = 0 THEN Q
    ELSE IF n = 0 THEN Q
    ELSE RefAcc(add(Q, P), n - 1, P)

\* n applications of +P starting from the zero point.
RefMul(n, P) == RefAcc(Zero(P.curve), n, P)

RECURSIVE OrderFrom(_, _, _)
OrderFrom(Q, n, P) ==
    IF is_zero(Q) THEN n ELSE OrderFrom(Force(add(Q, P)), n + 1, P)

\* The order of P in the group of its curve.
Order(P) == OrderFrom(P, 1, P)

\* Scalars passed to mul.
Scalars == (0 - MinusK)..MaxK

\* Masks of up to one bit more than blinding_size(group_order).
MaskSet_OneBitMore(order) ==
    LET top == 2 ^ (blinding_size(order) + 1) - 1
    IN  {m \in 0..top : m <= MaxMask \/ m = top}

\* Values BigInt(rng, blinding_size(group_order)) is tried with.
MaskSet(order) ==
    LET top == 2 ^ blinding_size(order) - 1
    IN  {m \in 0..top : m <= MaxMask \/ m = top}

\* The fields of a call that has not started.
CallIdle ==
    /\ op = "" /\ pc = "idle" /\ k = 0 /\ group_order = 0 /\ seeded = FALSE
    /\ scalar = 0 /\ windows = 0 /\ i = 0 /\ z1 = 0 /\ z2 = 0
    /\ err = "" /\ ret = <<>> /\ rng_calls = 0 /\ max_read = -1

NoEngine ==
    /\ m_base_point = Zero(E1) /\ m_mod_order = 0 /\ m_curve = E1
    /\ m_p_words = 0 /\ m_W = <<>> /\ m_T = <<>> /\ m_M = <<>>
    /\ m_no_infinity = FALSE

\* ----------------------------------------------------- fixed-base engine

\* Base points the fixed-base engine is built for: the points of E1, and one
\* of E4, whose order is longer than its prime.
BasePoints == CurvePoints(E1) \cup {P \in CurvePoints(E4) : P.x = 1 /\ P.y = 2}

\* State after PointGFp_Base_Point_Precompute(base, mod_order), base a point
\* of BasePoints and mod_order its order.
InitBase ==
    \E base \in BasePoints :
        LET e == BasePrecompute(base, Order(base))
        IN  /\ eng = "base"
            /\ m_base_point = e.m_base_point
            /\ m_mod_order = e.m_mod_order
            /\ m_p_words = e.m_p_words
            /\ m_W = e.m_W
            /\ m_curve = base.curve
            /\ m_T = <<>> /\ m_M = <<>> /\ m_no_infinity = FALSE
            /\ CallIdle
            /\ R = Zero(base.curve) /\ other = Zero(base.curve)
            /\ points = <<>> /\ points_in = <<>> /\ prev = <<>>
            /\ AuxIdle

\* group_order arguments: the order the engine was built for, and larger ones.
BaseOrderArgs == {m_mod_order, 8 * m_mod_order, 2 ^ 14}

\* The blinded scalar with the mask added instead of a multiple of the order.
BaseScalar_MaskAdded(kk, order, is_seeded, mask) ==
    LET reduced == reduce(m_mod_order, kk)
        once    == reduced + order
    IN  IF is_seeded THEN reduced + mask
        ELSE IF bits(once) = bits(order) THEN once + order
        ELSE once

\* The padded scalar without the second copy of the order.
BaseScalar_OnceOnly(kk, order, is_seeded, mask) ==
    LET reduced == reduce(m_mod_order, kk)
        once    == reduced + order
    IN  IF is_seeded THEN reduced + order * mask
        ELSE once

\* Lines 97-117: the scalar whose windows are processed.
BaseScalar(kk, order, is_seeded, mask) ==
    LET reduced == reduce(m_mod_order, kk)
        once    == reduced + order
    IN  IF is_seeded THEN reduced + order * mask
        ELSE IF bits(once) = bits(order) THEN once + order
        ELSE once

\* No scalar is rejected.
ScalarRejected_Never(kk) == FALSE

\* Lines 93 and 247: the test that rejects the scalar.
ScalarRejected(kk) == is_negative(kk)

\* Line 119
BaseWindows(sc) == round_up(bits(sc), WINDOW_BITS) \div WINDOW_BITS

\* Line 123: the condition of the BOTAN_ASSERT.
BaseWindowCheck(nwindows, elem_size) ==
    nwindows <= Len(m_W) \div (3 * elem_size)

\* Lines 93-129 of PointGFp_Base_Point_Precompute::mul
BaseMulEnter ==
    /\ eng = "base" /\ pc = "idle"
    /\ \E kk \in Scalars, order \in BaseOrderArgs, sd \in BOOLEAN :
       \E mask \in (IF sd THEN MaskSet(order) ELSE {0}) :
        /\ k' = kk /\ group_order' = order /\ seeded' = sd
        /\ drawn' = IF ScalarRejected(kk) THEN 0 ELSE mask
        /\ max_read' = -1 /\ ret' = <<>> /\ i' = 0
        /\ IF ScalarRejected(kk)
           THEN /\ pc' = "thrown" /\ err' = "Invalid_Argument"
                /\ rng_calls' = 0
                /\ UNCHANGED <<scalar, windows, R>>
           ELSE LET sc == BaseScalar(kk, order, sd, mask)
                    nw == BaseWindows(sc)
                IN  /\ scalar' = sc
                    /\ windows' = nw
                    /\ rng_calls' = IF sd THEN 2 ELSE 1
                    /\ IF BaseWindowCheck(nw, 2 * m_p_words)
                       THEN /\ pc' = "loop" /\ err' = ""
                            /\ R' = Zero(m_base_point.curve)
                       ELSE /\ pc' = "thrown" /\ err' = "Assertion_Failure"
                            /\ UNCHANGED R
    /\ op' = "mul"
    /\ UNCHANGED <<engVars, codecVars, concVars, poolVars, streamVars,
                   countVars, z1, z2, other, points, points_in, prev>>

\* The lookup of a window with the last table entry left out.
BaseSelect_LastSkipped(base_addr, elem_size, w) ==
    LET RECURSIVE acc(_, _)
        acc(j, c) ==
            IF c = 0 THEN 0
            ELSE BitOr(acc(j, c - 1),
                       if_set_return(w, c,
                           m_W[base_addr + (c - 1) * elem_size + j + 1]))
    IN  [j \in 1..elem_size |-> acc(j - 1, WINDOW_SIZE - 1)]

\* Lines 138-157: Wt, the words selected for window value w.
BaseSelect(base_addr, elem_size, w) ==
    LET RECURSIVE acc(_, _)
        acc(j, c) ==
            IF c = 0 THEN 0
            ELSE BitOr(acc(j, c - 1),
                       if_set_return(w, c,
                           m_W[base_addr + (c - 1) * elem_size + j + 1]))
    IN  [j \in 1..elem_size |-> acc(j - 1, WINDOW_SIZE)]

\* A lookup that reads the words of the selected entry only.
BaseReads_OnlySelected(base_addr, elem_size, w) ==
    IF w = 0 THEN <<>>
    ELSE [n \in 1..elem_size |-> base_addr + (w - 1) * elem_size + (n - 1)]

\* Lines 146-157: the indices of m_W the lookup of window value w reads, in
\* the order it reads them: for every word j the word of each of the 7
\* entries. The argument of if_set_return is read before the mask is applied.
BaseReads(base_addr, elem_size, w) ==
    [n \in 1..(WINDOW_SIZE * elem_size) |->
        base_addr + ((n - 1) % WINDOW_SIZE) * elem_size
                  + ((n - 1) \div WINDOW_SIZE)]

\* The largest of a sequence of indices, -1 if there is none.
LargestOf(reads) ==
    IF reads = <<>> THEN -1
    ELSE CHOOSE m \in {reads[n] : n \in 1..Len(reads)} :
            \A n \in 1..Len(reads) : reads[n] <= m

\* Largest index of m_W read by the lookup of one window.
BaseLastRead(base_addr, elem_size) ==
    base_addr + (WINDOW_SIZE - 1) * elem_size + (elem_size - 1)

\* Lines 159-171: the accumulator after the window's addition; r is the
\* factor randomize_repr draws.
BaseAccumulate(Rin, Wt, randomize, r) ==
    LET R1 == add_affine_words(Rin, SubSeq(Wt, 1, m_p_words),
                               SubSeq(Wt, m_p_words + 1, 2 * m_p_words))
    IN  IF randomize THEN randomize_repr(R1, r) ELSE R1

\* Lines 131-172: one iteration of the window loop.  A read past the end of
\* m_W is undefined behaviour: the call is then in no defined position.
BaseMulWindow ==
    /\ eng = "base" /\ pc = "loop" /\ i < windows
    /\ LET elem_size == 2 * m_p_words
           window    == windows - i - 1
           base_addr == (WINDOW_SIZE * window) * elem_size
           w  == get_substring(scalar, WINDOW_BITS * window, WINDOW_BITS)
           last == LargestOf(BaseReads(base_addr, elem_size, w))
       IN  /\ max_read' = IF last > max_read THEN last ELSE max_read
           /\ IF last >= Len(m_W)
              THEN /\ pc' = "ub"
                   /\ UNCHANGED <<R, i, rng_calls>>
              ELSE /\ pc' = "loop"
                   /\ i' = i + 1
                   /\ \E r \in (IF i = 0 /\ seeded THEN Factors(R.curve) ELSE {1}) :
                         R' = BaseAccumulate(R, BaseSelect(base_addr, elem_size, w),
                                             i = 0 /\ seeded, r)
                   /\ rng_calls' = rng_calls + (IF i = 0 THEN (IF seeded THEN 2 ELSE 1)
                                                ELSE 0)
    /\ UNCHANGED <<engVars, auxVars, argVars, scalar, windows, err, ret, prev>>

\* Lines 174-176
BaseMulReturn ==
    /\ eng = "base" /\ pc = "loop" /\ i = windows
    /\ pc' = "done"
    /\ ret' = <<R>>
    /\ UNCHANGED <<engVars, auxVars, argVars, scalar, windows, i, R, err, rng_calls,
                   max_read, prev>>

\* The caller takes the result (or the exception); the engine is idle again.
CallEnd ==
    /\ pc \in {"done", "thrown"}
    /\ eng \in {"base", "var", "multi"}
    /\ op' = "" /\ pc' = "idle" /\ k' = 0 /\ group_order' = 0 /\ seeded' = FALSE
    /\ scalar' = 0 /\ windows' = 0 /\ i' = 0 /\ z1' = 0 /\ z2' = 0
    /\ err' = "" /\ ret' = <<>> /\ rng_calls' = 0 /\ max_read' = -1
    /\ R' = Zero(m_curve) /\ drawn' = 0
    /\ doublings' = 0 /\ additions' = 0
    /\ UNCHANGED <<engVars, codecVars, concVars, poolVars, streamVars,
                   other, points, points_in, prev>>

\* -------------------------------------------------- variable-point engine

\* RNGs a table is built with: one without entropy, and NumSeeds seeded ones.
TableRngs ==
    {[seeded |-> FALSE, seed |-> 0]}
        \cup {[seeded |-> TRUE, seed |-> sd] : sd \in 0..(NumSeeds - 1)}

\* State after PointGFp_Var_Point_Precompute(point, rng, pool), point a
\* non-zero point of E1 or E2.
InitVar ==
    \E point \in CurvePoints(E1) \cup CurvePoints(E2), rng \in TableRngs :
        LET e == VarPrecompute(point, rng)
        IN  /\ eng = "var"
            /\ m_curve = e.m_curve
            /\ m_p_words = e.m_p_words
            /\ m_T = e.m_T
            /\ m_base_point = point
            /\ m_mod_order = 0
            /\ m_W = <<>> /\ m_M = <<>> /\ m_no_infinity = FALSE
            /\ CallIdle
            /\ R = Zero(point.curve) /\ other = Zero(point.curve)
            /\ points = <<>> /\ points_in = <<>> /\ prev = <<>>
            /\ AuxIdle

m_window_bits == 4

\* The scalar with the mask added instead of a multiple of the order.
VarScalar_MaskAdded(kk, order, mask) == kk + mask

\* The scalar left as it came.
VarScalar_Bare(kk, order, mask) == kk

\* Line 252
VarScalar(kk, order, mask) == kk + order * mask

\* Line 257
VarWindows(sc) == round_up(bits(sc), m_window_bits) \div m_window_bits

\* The lookup of a window with the last table entry left out.
VarSelect_LastSkipped(elem_size, w) ==
    LET RECURSIVE acc(_, _)
        acc(j, n) ==
            IF n = 0 THEN 0
            ELSE BitOr(acc(j, n - 1),
                       if_set_return(w, n, m_T[n * elem_size + j + 1]))
    IN  [j \in 1..elem_size |-> acc(j - 1, 2 ^ m_window_bits - 2)]

\* Lines 267-276 and 295-304: e, the words selected for window value w.
VarSelect(elem_size, w) ==
    LET RECURSIVE acc(_, _)
        acc(j, n) ==
            IF n = 0 THEN 0
            ELSE BitOr(acc(j, n - 1),
                       if_set_return(w, n, m_T[n * elem_size + j + 1]))
    IN  [j \in 1..elem_size |-> acc(j - 1, 2 ^ m_window_bits - 1)]

\* Lines 266-276 and 296-304: the indices of m_T one lookup reads, in the
\* order it reads them: every word of each of the entries 1..15, whatever w
\* is.
VarReads(elem_size, w) ==
    [n \in 1..((2 ^ m_window_bits - 1) * elem_size) |-> elem_size + (n - 1)]

\* Doublings before every window, the top one included.
VarDoublings_AlsoFirst(first) == m_window_bits

\* Doublings before the addition of a window: none before the top one
\* (lines 261-278), R.mult2i(m_window_bits) before every other (line 291).
VarDoublings(first) == IF first THEN 0 ELSE m_window_bits

\* Lines 278 and 306: R.add of the selected words.
VarAdd(Rin, e) ==
    add_words(Rin, SubSeq(e, 1, m_p_words),
              SubSeq(e, m_p_words + 1, 2 * m_p_words),
              SubSeq(e, 2 * m_p_words + 1, 3 * m_p_words))

\* Lines 247-259 of PointGFp_Var_Point_Precompute::mul; the group_order
\* argument is the order of the point the table was built from.
VarMulEnter ==
    /\ eng = "var" /\ pc = "idle"
    /\ \E kk \in Scalars, sd \in BOOLEAN :
       \E mask \in MaskSet(Order(m_base_point)) :
        /\ k' = kk /\ group_order' = Order(m_base_point) /\ seeded' = sd
        /\ drawn' = IF ScalarRejected(kk) THEN 0 ELSE mask
        /\ max_read' = -1 /\ ret' = <<>> /\ i' = 0
        /\ IF ScalarRejected(kk)
           THEN /\ pc' = "thrown" /\ err' = "Invalid_Argument"
                /\ rng_calls' = 0
                /\ UNCHANGED <<scalar, windows, R>>
           ELSE /\ scalar' = VarScalar(kk, Order(m_base_point), mask)
                /\ windows' = VarWindows(scalar')
                /\ rng_calls' = 1
                /\ R' = Zero(m_curve)
                /\ pc' = "top" /\ err' = ""
    /\ op' = "mul"
    /\ UNCHANGED <<engVars, codecVars, concVars, poolVars, streamVars,
                   countVars, z1, z2, other, points, points_in, prev>>

\* Lines 261-287: the top window, added without a doubling, then the
\* accumulator's representation is randomized.
VarMulTop ==
    /\ eng = "var" /\ pc = "top"
    /\ pc' = "loop"
    /\ IF windows > 0
       THEN LET elem_size == 3 * m_p_words
                w == get_substring(scalar, (windows - 1) * m_window_bits,
                                   m_window_bits)
            IN  /\ windows' = windows - 1
                /\ \E r \in Factors(m_curve) :
                      R' = randomize_repr(
                               VarAdd(mult2i(R, VarDoublings(TRUE)),
                                      VarSelect(elem_size, w)), r)
                /\ doublings' = doublings + VarDoublings(TRUE)
                /\ additions' = additions + 1
                /\ rng_calls' = rng_calls + 1
                /\ max_read' = LargestOf(VarReads(elem_size, w))
       ELSE UNCHANGED <<windows, R, rng_calls, max_read, countVars>>
    /\ UNCHANGED <<engVars, codecVars, concVars, poolVars, streamVars,
                   drawVars, argVars, scalar, i, err, ret, prev>>

\* Lines 289-309: one iteration of while(windows).
VarMulWindow ==
    /\ eng = "var" /\ pc = "loop" /\ windows > 0
    /\ LET elem_size == 3 * m_p_words
           w == get_substring(scalar, (windows - 1) * m_window_bits,
                              m_window_bits)
       IN  /\ R' = VarAdd(mult2i(R, VarDoublings(FALSE)),
                          VarSelect(elem_size, w))
           /\ max_read' = LargestOf(VarReads(elem_size, w))
    /\ doublings' = doublings + VarDoublings(FALSE)
    /\ additions' = additions + 1
    /\ windows' = windows - 1
    /\ UNCHANGED <<engVars, codecVars, concVars, poolVars, streamVars,
                   drawVars, argVars, scalar, i, pc, err, ret, rng_calls,
                   prev>>

\* Lines 311-313
VarMulReturn ==
    /\ eng = "var" /\ pc = "loop" /\ windows = 0
    /\ pc' = "done"
    /\ ret' = <<R>>
    /\ UNCHANGED <<engVars, auxVars, argVars, scalar, windows, i, R, err, rng_calls,
                   max_read, prev>>

NextVar == VarMulEnter \/ VarMulTop \/ VarMulWindow \/ VarMulReturn \/ CallEnd

SpecVar == InitVar /\ [][NextVar]_vars

NextBase == BaseMulEnter \/ BaseMulWindow \/ BaseMulReturn \/ CallEnd

SpecBase == InitBase /\ [][NextBase]_vars

\* ------------------------------------------------------ multi-scalar engine

\* Affine pairs that are not on E1.
OffCurvePoints == {Affine(E1, 0, 1), Affine(E1, 1, 1)}

\* First points of the multi-scalar engine: those with x <= MaxPX, and the
\* pairs off the curve.
MultiXs == {P \in CurvePoints(E1) : P.x <= MaxPX} \cup OffCurvePoints

MultiYs == CurvePoints(E1) \cup OffCurvePoints

\* State after PointGFp_Multi_Point_Precompute(x, y).
InitMulti ==
    \E x \in MultiXs, y \in MultiYs, garbage \in BOOLEAN :
        LET e == MultiPrecompute(x, y, garbage)
        IN  /\ eng = "multi"
            /\ (garbage => Len(e.m_M) = 1)
            /\ m_M = e.m_M
            /\ m_no_infinity = e.m_no_infinity
            /\ m_curve = x.curve
            /\ m_base_point = x
            /\ other = y
            /\ m_mod_order = 0 /\ m_p_words = sig_words(x.curve.p)
            /\ m_W = <<>> /\ m_T = <<>>
            /\ CallIdle
            /\ R = Zero(x.curve)
            /\ points = <<>> /\ points_in = <<>> /\ prev = <<>>
            /\ AuxIdle

\* Scalars passed to multi_exp.
MultiScalars == (0 - MaxZ)..MaxZ

Max(a, b) == IF a >= b THEN a ELSE b

\* Lines 378-383 of PointGFp_Multi_Point_Precompute::multi_exp; windows holds
\* z_bits.
MultiExpEnter ==
    /\ eng = "multi" /\ pc = "idle"
    /\ \E zz1 \in MultiScalars, zz2 \in MultiScalars :
        /\ z1' = zz1 /\ z2' = zz2
        /\ i' = 0 /\ err' = ""
        /\ IF Len(m_M) = 1
           THEN /\ pc' = "done"
                /\ ret' = <<m_M[1]>>
                /\ max_read' = 0
                /\ UNCHANGED <<windows, R>>
           ELSE /\ pc' = "loop"
                /\ windows' = round_up(Max(bits(zz1), bits(zz2)), 2)
                /\ R' = Zero(m_M[1].curve)
                /\ ret' = <<>>
                /\ max_read' = 0
    /\ op' = "multi_exp"
    /\ UNCHANGED <<engVars, auxVars, k, group_order, seeded, other, points, points_in,
                   scalar, rng_calls, prev>>

\* Lines 387-390: the doublings before the step at bit offset ii.
MultiDoublings(ii) == IF ii > 0 THEN 2 ELSE 0

\* Line 398: additions made for the two 2-bit digits.
MultiAdds(z1_b, z2_b) == IF (4 * z2_b) + z1_b /= 0 THEN 1 ELSE 0

\* Lines 395-404: H after the addition selected by the two 2-bit digits.
MultiAdd(H, z1_b, z2_b) ==
    LET z12 == (4 * z2_b) + z1_b
    IN  IF z12 /= 0
        THEN (IF m_no_infinity THEN add_affine(H, m_M[z12])
              ELSE add(H, m_M[z12]))
        ELSE H

\* Lines 385-405: one iteration of the loop.
MultiExpStep ==
    /\ eng = "multi" /\ pc = "loop" /\ i /= windows
    /\ LET z1_b == get_substring(z1, windows - i - 2, 2)
           z2_b == get_substring(z2, windows - i - 2, 2)
       IN  /\ R' = MultiAdd(mult2i(R, MultiDoublings(i)), z1_b, z2_b)
           /\ max_read' = Max(max_read, (4 * z2_b) + z1_b - 1)
           /\ doublings' = doublings + MultiDoublings(i)
           /\ additions' = additions + MultiAdds(z1_b, z2_b)
    /\ i' = i + 2
    /\ UNCHANGED <<engVars, codecVars, concVars, poolVars, streamVars,
                   drawVars, argVars, scalar, windows, pc, err, ret,
                   rng_calls, prev>>

\* Lines 407-410
MultiSign(H, zz1, zz2) ==
    IF is_negative(zz1) /= is_negative(zz2) THEN negate(H) ELSE H

MultiExpReturn ==
    /\ eng = "multi" /\ pc = "loop" /\ i = windows
    /\ pc' = "done"
    /\ R' = MultiSign(R, z1, z2)
    /\ ret' = <<R'>>
    /\ UNCHANGED <<engVars, auxVars, argVars, scalar, windows, i, err, rng_calls,
                   max_read, prev>>

NextMulti == MultiExpEnter \/ MultiExpStep \/ MultiExpReturn \/ CallEnd

SpecMulti == InitMulti /\ [][NextMulti]_vars

\* ---------------------------------------------------------- point operations

\* Jacobian representations of the points of E1 with x <= MaxPX.
JacobianPoints ==
    {Rescale(P, r) : P \in {Q \in CurvePoints(E1) : Q.x <= MaxPX}, r \in 1..MaxRep}

\* Jacobian representations of the points of E2, whose orders are 2, 3, 6.
OrderSixPoints == {Rescale(P, r) : P \in CurvePoints(E2), r \in 1..MaxRep}

RECURSIVE Lists(_, _)
\* The lists of n elements of S.
Lists(S, n) ==
    IF n = 0 THEN {<<>>}
    ELSE {<<e>> \o l : e \in S, l \in Lists(S, n - 1)}

\* A point and the argument of the next operation on it, or a list of
\* non-zero points for force_all_affine.
InitPoint ==
    /\ eng = "point"
    /\ NoEngine
    /\ CallIdle
    /\ prev = <<>> /\ points_in = <<>>
    /\ AuxIdle
    /\ \/ /\ R \in JacobianPoints \cup OrderSixPoints \cup {Zero(E1)}
          /\ other \in CurvePoints(E1) \cup CurvePoints(E2) \cup CurvePoints(E3)
          /\ points = <<>>
       \/ /\ R = Zero(E1) /\ other = Zero(E1)
          /\ \E n \in 1..MaxN : points \in Lists(JacobianPoints, n)

\* CurveGFp::operator==: by value of p, a and b.
SameCurve(c, d) == c.p = d.p /\ c.a = d.a /\ c.b = d.b

\* PointGFp::add(other, pool): BOTAN_ARG_CHECK, then the array version.
PointAdd ==
    /\ eng = "point" /\ pc = "idle" /\ points = <<>>
    /\ op' = "add"
    /\ IF SameCurve(R.curve, other.curve)
       THEN /\ R' = add(R, other)
            /\ pc' = "done" /\ err' = ""
       ELSE /\ pc' = "thrown" /\ err' = "Invalid_Argument"
            /\ UNCHANGED R
    /\ ret' = <<>>
    /\ UNCHANGED <<engVars, auxVars, k, group_order, seeded, scalar, windows, i, z1, z2,
                   other, points, points_in, rng_calls, max_read, prev>>

\* PointGFp::plus(other, pool): a copy of *this, add on the copy.
PointPlus ==
    /\ eng = "point" /\ pc = "idle" /\ points = <<>>
    /\ op' = "plus"
    /\ IF SameCurve(R.curve, other.curve)
       THEN /\ ret' = <<add(R, other)>>
            /\ pc' = "done" /\ err' = ""
       ELSE /\ pc' = "thrown" /\ err' = "Invalid_Argument"
            /\ ret' = <<>>
    /\ UNCHANGED <<engVars, auxVars, k, group_order, seeded, scalar, windows, i, R, z1, z2,
                   other, points, points_in, rng_calls, max_read, prev>>

\* PointGFp::add_affine(other, pool): BOTAN_ASSERT_NOMSG, then the array
\* version; the caller passes an affine point.
PointAddAffine ==
    /\ eng = "point" /\ pc = "idle" /\ points = <<>>
    /\ is_affine(other)
    /\ op' = "add_affine"
    /\ IF SameCurve(R.curve, other.curve)
       THEN /\ R' = add_affine(R, other)
            /\ pc' = "done" /\ err' = ""
       ELSE /\ pc' = "thrown" /\ err' = "Assertion_Failure"
            /\ UNCHANGED R
    /\ ret' = <<>>
    /\ UNCHANGED <<engVars, auxVars, k, group_order, seeded, scalar, windows, i, z1, z2,
                   other, points, points_in, rng_calls, max_read, prev>>

\* PointGFp::force_all_affine(points, pool)
ForceAllAffine ==
    /\ eng = "point" /\ pc = "idle" /\ points /= <<>>
    /\ op' = "force_all_affine"
    /\ points_in' = points
    /\ points' = force_all_affine(points)
    /\ pc' = "done" /\ err' = "" /\ ret' = <<>>
    /\ UNCHANGED <<engVars, auxVars, k, group_order, seeded, scalar, windows, i, R, z1, z2,
                   other, rng_calls, max_read, prev>>

\* operator-(lhs): a negated copy of the point.
PointMinus ==
    /\ eng = "point" /\ pc = "idle" /\ points = <<>>
    /\ op' = "operator-" /\ pc' = "done" /\ err' = ""
    /\ ret' = <<negate(R)>>
    /\ UNCHANGED <<engVars, auxVars, k, group_order, seeded, scalar, windows, i, R,
                   z1, z2, other, points, points_in, rng_calls, max_read, prev>>

\* operator+(lhs, rhs) with the point operator- has just returned as rhs:
\* a copy of lhs, += rhs on the copy.
PointPlusNegated ==
    /\ eng = "point" /\ pc = "done" /\ op = "operator-"
    /\ op' = "operator+" /\ pc' = "done" /\ err' = ""
    /\ other' = ret[1]
    /\ ret' = <<add(R, ret[1])>>
    /\ UNCHANGED <<engVars, auxVars, k, group_order, seeded, scalar, windows, i, R,
                   z1, z2, points, points_in, rng_calls, max_read, prev>>

\* The operation is over; the point keeps its coordinates.
PointCallEnd ==
    /\ eng = "point" /\ pc \in {"done", "thrown"}
    /\ op' = "" /\ pc' = "idle" /\ err' = "" /\ ret' = <<>>
    /\ UNCHANGED <<engVars, auxVars, k, group_order, seeded, scalar, windows, i, R, z1, z2,
                   other, points, points_in, rng_calls, max_read, prev>>

NextPoint ==
    \/ PointAdd \/ PointPlus \/ PointAddAffine \/ ForceAllAffine
    \/ PointMinus \/ PointPlusNegated \/ PointCallEnd

SpecPoint == InitPoint /\ [][NextPoint]_vars

\* ------------------------------------------- both engines for one point

RECURSIVE BaseMulLoop(_, _, _, _, _, _)
\* Lines 131-172: the window loop from iteration ii on.
BaseMulLoop(Rin, sc, nw, ii, sd, r) ==
    IF is_zero(Rin) /\ ii = nw THEN Rin
    ELSE IF ii = nw THEN Rin
    ELSE BaseMulLoop(
            BaseAccumulate(Rin,
                BaseSelect((WINDOW_SIZE * (nw - ii - 1)) * (2 * m_p_words),
                           2 * m_p_words,
                           get_substring(sc, WINDOW_BITS * (nw - ii - 1),
                                         WINDOW_BITS)),
                ii = 0 /\ sd, r),
            sc, nw, ii + 1, sd, r)

\* The point a fixed-base mul returns when the table covers the scalar.
BaseMulResult(kk, order, sd, mask, r) ==
    BaseMulLoop(Zero(m_base_point.curve), BaseScalar(kk, order, sd, mask),
                BaseWindows(BaseScalar(kk, order, sd, mask)), 0, sd, r)

RECURSIVE VarMulLoop(_, _, _)
\* Lines 289-309: while(windows).
VarMulLoop(Rin, sc, nw) ==
    IF is_zero(Rin) /\ nw = 0 THEN Rin
    ELSE IF nw = 0 THEN Rin
    ELSE VarMulLoop(
            VarAdd(mult2i(Rin, m_window_bits),
                   VarSelect(3 * m_p_words,
                       get_substring(sc, (nw - 1) * m_window_bits,
                                     m_window_bits))),
            sc, nw - 1)

\* The point a variable-point mul returns.
VarMulResult(kk, order, mask, r) ==
    LET sc == VarScalar(kk, order, mask)
        nw == VarWindows(sc)
    IN  IF nw > 0
        THEN VarMulLoop(
                randomize_repr(
                    VarAdd(Zero(m_curve),
                           VarSelect(3 * m_p_words,
                               get_substring(sc, (nw - 1) * m_window_bits,
                                             m_window_bits))), r),
                sc, nw - 1)
        ELSE Zero(m_curve)

\* State after both engines were constructed for one point of E1, with the
\* scalar k and the group order that every later call passes.
InitPair ==
    \E point \in {P \in CurvePoints(E1) : P.x <= MaxPX}, rng \in TableRngs,
       kk \in 0..MaxK :
        LET b == BasePrecompute(point, Order(point))
            v == VarPrecompute(point, rng)
        IN  /\ eng = "pair"
            /\ m_base_point = point
            /\ m_mod_order = b.m_mod_order
            /\ m_p_words = b.m_p_words
            /\ m_W = b.m_W
            /\ m_curve = v.m_curve
            /\ m_T = v.m_T
            /\ m_M = <<>> /\ m_no_infinity = FALSE
            /\ op = "" /\ pc = "idle" /\ seeded = FALSE
            /\ k = kk /\ group_order = Order(point)
            /\ scalar = 0 /\ windows = 0 /\ i = 0 /\ z1 = 0 /\ z2 = 0
            /\ err = "" /\ ret = <<>> /\ rng_calls = 0 /\ max_read = -1
            /\ R = Zero(point.curve) /\ other = Zero(point.curve)
            /\ points = <<>> /\ points_in = <<>> /\ prev = <<>>
            /\ AuxIdle

\* What the call before left: its point and the engine that returned it.
Earlier == IF ret = <<>> THEN <<>> ELSE <<ret[1], op>>

\* A whole PointGFp_Base_Point_Precompute::mul(k, rng, group_order), as one
\* of two calls made with the same scalar.
PairBaseMul ==
    /\ eng = "pair" /\ prev = <<>>
    /\ \E sd \in BOOLEAN :
       \E mask \in (IF sd THEN MaskSet(group_order) ELSE {0}),
          r \in (IF sd THEN Factors(m_curve) ELSE {1}) :
        ret' = <<BaseMulResult(k, group_order, sd, mask, r)>>
    /\ op' = "base_mul" /\ pc' = "done"
    /\ prev' = Earlier
    /\ UNCHANGED <<engVars, auxVars, k, group_order, seeded, scalar, windows, i, R, z1,
                   z2, other, points, points_in, err, rng_calls, max_read>>

\* A whole PointGFp_Var_Point_Precompute::mul(k, rng, group_order).
PairVarMul ==
    /\ eng = "pair" /\ prev = <<>>
    /\ \E mask \in MaskSet(group_order), r \in Factors(m_curve) :
        ret' = <<VarMulResult(k, group_order, mask, r)>>
    /\ op' = "var_mul" /\ pc' = "done"
    /\ prev' = Earlier
    /\ UNCHANGED <<engVars, auxVars, k, group_order, seeded, scalar, windows, i, R, z1,
                   z2, other, points, points_in, err, rng_calls, max_read>>

NextPair == PairBaseMul \/ PairVarMul

SpecPair == InitPair /\ [][NextPair]_vars

\* ----------------------------------------------------------- point encoding

ByteMod == 2 ^ ByteBits

\* PointGFp::Compression_Type
UNCOMPRESSED == 0

COMPRESSED == 1

HYBRID == 2

\* Bytes of a coordinate: the byte length of p.
p_bytes(c) == round_up(bits(c.p), ByteBits) \div ByteBits

RECURSIVE encode_1363(_, _)
\* n as a big-endian byte string of len bytes.
encode_1363(n, len) ==
    IF len = 0 THEN <<>>
    ELSE encode_1363(n \div ByteMod, len - 1) \o <<n % ByteMod>>

RECURSIVE decode_bytes(_)
\* The integer a big-endian byte string holds.
decode_bytes(bs) ==
    IF Len(bs) = 0 THEN 0
    ELSE decode_bytes(SubSeq(bs, 1, Len(bs) - 1)) * ByteMod + bs[Len(bs)]

\* PointGFp::encode for a non-zero point: tag | X [| Y], the low bit of the
\* tag of the compressed and hybrid forms being the parity of Y.
encode(P, fmt) ==
    LET x  == get_affine_x(P)
        y  == get_affine_y(P)
        n  == p_bytes(P.curve)
        bx == encode_1363(x, n)
        by == encode_1363(y, n)
    IN  IF fmt = UNCOMPRESSED THEN <<4>> \o bx \o by
        ELSE IF fmt = COMPRESSED THEN <<2 + (y % 2)>> \o bx
        ELSE <<6 + (y % 2)>> \o bx \o by

\* A square root of a modulo p, or -1 when there is none.
SqrtMod(a, p) ==
    IF \E r \in 0..(p - 1) : Mod(r * r, p) = a
    THEN CHOOSE r \in 0..(p - 1) :
            /\ Mod(r * r, p) = a
            /\ \A q \in 0..(p - 1) : Mod(q * q, p) = a => r <= q
    ELSE -1

\* The root taken as it comes, whatever the parity asked for.
decompress_NoFlip(x, y_bit, c) ==
    SqrtMod(Mod(x * x * x + c.a * x + c.b, c.p), c.p)

\* Y recovered from X and the parity bit: the square root of X^3 + aX + b
\* with that parity, or -1 when there is no root.
decompress(x, y_bit, c) ==
    LET z == SqrtMod(Mod(x * x * x + c.a * x + c.b, c.p), c.p)
    IN  IF z < 0 THEN -1
        ELSE IF z % 2 /= y_bit THEN c.p - z
        ELSE z

\* OS2ECP(data, curve): [ok, point].  The length must be that of one of the
\* three forms, the coordinates below p, a compressed X must have a root, a
\* hybrid tag must agree with Y, and the point must be on the curve.
OS2ECP(bytes, c) ==
    LET n    == p_bytes(c)
        fail == [ok |-> FALSE, point |-> Zero(c)]
        tag  == bytes[1]
        x    == decode_bytes(SubSeq(bytes, 2, n + 1))
        yraw == decode_bytes(SubSeq(bytes, n + 2, 2 * n + 1))
        y    == IF tag \in {2, 3} THEN decompress(x, tag % 2, c) ELSE yraw
    IN  IF Len(bytes) = 0 THEN fail
        ELSE IF tag \in {2, 3} /\ Len(bytes) /= n + 1 THEN fail
        ELSE IF tag \in {4, 6, 7} /\ Len(bytes) /= 2 * n + 1 THEN fail
        ELSE IF tag \notin {2, 3, 4, 6, 7} THEN fail
        ELSE IF x >= c.p \/ y < 0 \/ y >= c.p THEN fail
        ELSE IF tag \in {6, 7} /\ decompress(x, tag % 2, c) /= y THEN fail
        ELSE IF ~on_the_curve(Affine(c, x, y)) THEN fail
        ELSE [ok |-> TRUE, point |-> Affine(c, x, y)]

\* Jacobian representations of the non-zero points of E1 and E2.
CodecPoints ==
    {Rescale(P, r) : P \in CurvePoints(E1) \cup CurvePoints(E2), r \in 1..MaxRep}

\* A non-zero point that is about to be encoded.
InitCodec ==
    /\ eng = "codec"
    /\ NoEngine
    /\ CallIdle
    /\ prev = <<>> /\ points = <<>> /\ points_in = <<>>
    /\ AuxIdle
    /\ R \in CodecPoints
    /\ other = Zero(R.curve)

\* P.encode(format)
PointEncode ==
    /\ eng = "codec" /\ pc = "idle"
    /\ \E f \in {UNCOMPRESSED, COMPRESSED, HYBRID} :
        /\ format' = f
        /\ data' = encode(R, f)
    /\ op' = "encode" /\ pc' = "encoded"
    /\ UNCHANGED <<engVars, k, group_order, seeded, scalar, windows, i, R, z1, z2,
                   other, points, points_in, err, ret, rng_calls, max_read, prev,
                   concVars, poolVars, streamVars, drawVars, countVars>>

\* The bytes reach the decoder without their last byte.
Truncate ==
    /\ eng = "codec" /\ pc = "encoded"
    /\ data' = SubSeq(data, 1, Len(data) - 1)
    /\ pc' = "sent"
    /\ UNCHANGED <<engVars, op, k, group_order, seeded, scalar, windows, i, R, z1,
                   z2, other, points, points_in, err, ret, rng_calls, max_read,
                   prev, format, concVars,
                   poolVars, streamVars, drawVars, countVars>>

\* The bytes reach the decoder with one byte replaced.
Tamper ==
    /\ eng = "codec" /\ pc = "encoded"
    /\ \E j \in 1..Len(data), b \in 0..(ByteMod - 1) :
        data' = [data EXCEPT ![j] = b]
    /\ pc' = "sent"
    /\ UNCHANGED <<engVars, op, k, group_order, seeded, scalar, windows, i, R, z1,
                   z2, other, points, points_in, err, ret, rng_calls, max_read,
                   prev, format, concVars,
                   poolVars, streamVars, drawVars, countVars>>

\* OS2ECP(data, curve) on the curve of the encoded point.
PointDecode ==
    /\ eng = "codec" /\ pc \in {"encoded", "sent"}
    /\ op' = "OS2ECP"
    /\ LET d == OS2ECP(data, R.curve)
       IN  IF d.ok
           THEN pc' = "done" /\ ret' = <<d.point>> /\ err' = ""
           ELSE pc' = "thrown" /\ ret' = <<>> /\ err' = "Decoding_Error"
    /\ UNCHANGED <<engVars, k, group_order, seeded, scalar, windows, i, R, z1, z2,
                   other, points, points_in, rng_calls, max_read, prev, data,
                   format, concVars, poolVars, streamVars, drawVars, countVars>>

\* The decoded point, or the failure, has been taken.
CodecEnd ==
    /\ eng = "codec" /\ pc \in {"done", "thrown"}
    /\ op' = "" /\ pc' = "idle" /\ err' = "" /\ ret' = <<>>
    /\ data' = <<>> /\ format' = 0
    /\ UNCHANGED <<engVars, k, group_order, seeded, scalar, windows, i, R, z1, z2,
                   other, points, points_in, rng_calls, max_read, prev,
                   concVars, poolVars, streamVars, drawVars, countVars>>

NextCodec == PointEncode \/ Truncate \/ Tamper \/ PointDecode \/ CodecEnd

SpecCodec == InitCodec /\ [][NextCodec]_vars

\* ------------------------------------------- concurrent calls on one engine

\* The callers that share an engine.
Threads == {"t1", "t2"}

ConcKinds == {"shared_base", "shared_var", "shared_multi"}

\* The point the shared engine is built for, and the second point of a
\* shared multi-scalar engine.
ConcPoint == Affine(E1, 2, 4)

ConcOther == Affine(E1, 3, 5)

\* Masks and factors the RNG of a concurrent caller yields: the smallest and
\* the largest.
ConcMasks(order) == {0, 2 ^ blinding_size(order) - 1}

ConcFactors(c) == {1, 2 ^ (bits(c.p) - 1) - 1}

\* A table that has lost its last element to an iteration of the loop.
TableAfterStep_Dropped(T) == SubSeq(T, 1, Len(T) - 1)

\* The members a const method leaves: mul and multi_exp are const, they read
\* the table and assign no member.
TableAfterStep(T) == T

\* The locals of a caller that is not in a call.
ThreadIdle ==
    [pc |-> "idle", k |-> 0, z2 |-> 0, sd |-> FALSE, mask |-> 0, r |-> 1,
     scalar |-> 0, windows |-> 0, i |-> 0, R |-> Zero(E1), ret |-> <<>>]

\* State after one engine was constructed and handed to the callers.
InitConc ==
    /\ eng \in ConcKinds
    /\ m_base_point = ConcPoint
    /\ m_curve = ConcPoint.curve
    /\ m_p_words = sig_words(ConcPoint.curve.p)
    /\ m_mod_order = Order(ConcPoint)
    /\ other = IF eng = "shared_multi" THEN ConcOther ELSE Zero(E1)
    /\ m_W = IF eng = "shared_base"
             THEN BasePrecompute(ConcPoint, Order(ConcPoint)).m_W ELSE <<>>
    /\ \E rng \in TableRngs :
         m_T = IF eng = "shared_var" THEN VarPrecompute(ConcPoint, rng).m_T
               ELSE <<>>
    /\ m_M = IF eng = "shared_multi"
             THEN MultiPrecompute(ConcPoint, ConcOther, FALSE).m_M ELSE <<>>
    /\ m_no_infinity = (eng = "shared_multi"
                        /\ MultiPrecompute(ConcPoint, ConcOther, FALSE).m_no_infinity)
    /\ CallIdle
    /\ R = Zero(E1)
    /\ points = <<>> /\ points_in = <<>> /\ prev = <<>>
    /\ data = <<>> /\ format = 0
    /\ pool = <<>> /\ pool_in = <<>>
    /\ StreamIdle
    /\ drawn = 0 /\ doublings = 0 /\ additions = 0
    /\ th = [t \in Threads |-> ThreadIdle]

\* The locals after lines 93-129 of the fixed-base mul.
BaseEntered(kk, sd, mask, r) ==
    [ThreadIdle EXCEPT
        !.pc = "loop", !.k = kk, !.sd = sd,
        !.mask = IF sd THEN mask ELSE 0, !.r = IF sd THEN r ELSE 1,
        !.scalar = BaseScalar(kk, m_mod_order, sd, mask),
        !.windows = BaseWindows(BaseScalar(kk, m_mod_order, sd, mask)),
        !.R = Zero(m_curve)]

\* The locals after lines 247-259 of the variable-point mul.
VarEntered(kk, mask, r) ==
    [ThreadIdle EXCEPT
        !.pc = "top", !.k = kk, !.mask = mask, !.r = r,
        !.scalar = VarScalar(kk, m_mod_order, mask),
        !.windows = VarWindows(VarScalar(kk, m_mod_order, mask)),
        !.R = Zero(m_curve)]

\* The locals after lines 378-383 of multi_exp; windows holds z_bits.
MultiEntered(zz1, zz2) ==
    [ThreadIdle EXCEPT
        !.pc = "loop", !.k = zz1, !.z2 = zz2,
        !.windows = round_up(Max(bits(zz1), bits(zz2)), 2),
        !.R = Zero(m_curve)]

\* A caller enters mul or multi_exp with its own arguments and RNG.
ConcEnter ==
    /\ eng \in ConcKinds
    /\ \E t \in Threads :
        /\ th[t].pc = "idle"
        /\ \E kk \in 0..MaxConcK, zz1, zz2 \in (0 - MaxConcK)..MaxConcK,
              sd \in BOOLEAN, mask \in ConcMasks(m_mod_order),
              r \in ConcFactors(m_curve) :
            th' = [th EXCEPT ![t] =
                     IF eng = "shared_base" THEN BaseEntered(kk, sd, mask, r)
                     ELSE IF eng = "shared_var" THEN VarEntered(kk, mask, r)
                     ELSE MultiEntered(zz1, zz2)]
    /\ UNCHANGED <<engVars, op, pc, k, group_order, seeded, scalar, windows, i, R,
                   z1, z2, other, points, points_in, err, ret, rng_calls,
                   max_read, prev, codecVars, poolVars,
                   streamVars, drawVars, countVars>>

\* Lines 131-172 for the locals l: one iteration of the fixed-base loop.
BaseStepped(l) ==
    LET window == l.windows - l.i - 1
        Wt == BaseSelect((WINDOW_SIZE * window) * (2 * m_p_words),
                         2 * m_p_words,
                         get_substring(l.scalar, WINDOW_BITS * window,
                                       WINDOW_BITS))
    IN  [l EXCEPT !.R = BaseAccumulate(l.R, Wt, l.i = 0 /\ l.sd, l.r),
                  !.i = l.i + 1]

\* Lines 261-309 for the locals l: the top window, or one iteration of
\* while(windows).
VarStepped(l) ==
    LET e == VarSelect(3 * m_p_words,
                       get_substring(l.scalar, (l.windows - 1) * m_window_bits,
                                     m_window_bits))
    IN  IF l.pc = "top" /\ l.windows = 0 THEN [l EXCEPT !.pc = "loop"]
        ELSE IF l.pc = "top"
        THEN [l EXCEPT !.pc = "loop", !.windows = l.windows - 1,
                       !.R = randomize_repr(VarAdd(l.R, e), l.r)]
        ELSE [l EXCEPT !.windows = l.windows - 1,
                       !.R = VarAdd(mult2i(l.R, m_window_bits), e)]

\* Lines 385-405 for the locals l: one iteration of the multi_exp loop.
MultiStepped(l) ==
    [l EXCEPT
        !.R = MultiAdd(IF l.i > 0 THEN mult2i(l.R, 2) ELSE l.R,
                       get_substring(l.k, l.windows - l.i - 2, 2),
                       get_substring(l.z2, l.windows - l.i - 2, 2)),
        !.i = l.i + 2]

\* The loop of the call with locals l has run to its end.
LoopOver(l) ==
    /\ l.pc = "loop"
    /\ IF eng = "shared_var" THEN l.windows = 0 ELSE l.i = l.windows

\* A caller runs one iteration of its loop; the table is read.
ConcStep ==
    /\ eng \in ConcKinds
    /\ \E t \in Threads :
        /\ th[t].pc \in {"top", "loop"} /\ ~LoopOver(th[t])
        /\ th' = [th EXCEPT ![t] =
                    IF eng = "shared_base" THEN BaseStepped(th[t])
                    ELSE IF eng = "shared_var" THEN VarStepped(th[t])
                    ELSE MultiStepped(th[t])]
    /\ m_W' = TableAfterStep(m_W)
    /\ m_T' = TableAfterStep(m_T)
    /\ m_M' = TableAfterStep(m_M)
    /\ UNCHANGED <<eng, m_base_point, m_mod_order, m_curve, m_p_words,
                   m_no_infinity, op, pc, k, group_order, seeded, scalar,
                   windows, i, R, z1, z2, other, points, points_in, err, ret,
                   rng_calls, max_read, prev, codecVars, poolVars,
                   streamVars, drawVars, countVars>>

\* A caller's call returns its accumulator.
ConcReturn ==
    /\ eng \in ConcKinds
    /\ \E t \in Threads :
        /\ LoopOver(th[t])
        /\ th' = [th EXCEPT ![t].pc = "done",
                            ![t].ret =
                               <<IF eng = "shared_multi"
                                 THEN MultiSign(th[t].R, th[t].k, th[t].z2)
                                 ELSE th[t].R>>]
    /\ UNCHANGED <<engVars, op, pc, k, group_order, seeded, scalar, windows, i, R,
                   z1, z2, other, points, points_in, err, ret, rng_calls,
                   max_read, prev, codecVars, poolVars,
                   streamVars, drawVars, countVars>>

\* A caller has taken the returned point.
ConcEnd ==
    /\ eng \in ConcKinds
    /\ \E t \in Threads :
        /\ th[t].pc = "done"
        /\ th' = [th EXCEPT ![t] = ThreadIdle]
    /\ UNCHANGED <<engVars, op, pc, k, group_order, seeded, scalar, windows, i, R,
                   z1, z2, other, points, points_in, err, ret, rng_calls,
                   max_read, prev, codecVars, poolVars,
                   streamVars, drawVars, countVars>>

NextConc == ConcEnter \/ ConcStep \/ ConcReturn \/ ConcEnd

SpecConc == InitConc /\ [][NextConc]_vars

RECURSIVE MultiExpLoop(_, _, _, _, _)
\* Lines 385-405: the loop of multi_exp from iteration ii on.
MultiExpLoop(H, zz1, zz2, z_bits, ii) ==
    IF is_zero(H) /\ ii = z_bits THEN H
    ELSE IF ii = z_bits THEN H
    ELSE MultiExpLoop(
            MultiAdd(IF ii > 0 THEN mult2i(H, 2) ELSE H,
                     get_substring(zz1, z_bits - ii - 2, 2),
                     get_substring(zz2, z_bits - ii - 2, 2)),
            zz1, zz2, z_bits, ii + 2)

\* The point a multi_exp call on its own returns.
MultiExpResult(zz1, zz2) ==
    IF Len(m_M) = 1 THEN m_M[1]
    ELSE MultiSign(MultiExpLoop(Zero(m_M[1].curve), zz1, zz2,
                                round_up(Max(bits(zz1), bits(zz2)), 2), 0),
                   zz1, zz2)

\* ------------------------------------------------------------ scratch pool

\* Scopes the caller may hold open on the pool it passes in.
MaxScopes == 2

\* Entries one such scope may have taken.
MaxHeld == 1

\* Windows of a call whose pool use is followed.
MaxPoolWindows == 2

\* Values the variable-point constructor takes from its scope: mask, mask_inv,
\* mask2, mask2_inv, mask3, mask3_inv and the ws vector.
CtorTemporaries == 7

\* auto scope = pool.scope(): a new innermost scope that has taken nothing.
ScopeEnter(pl) == Append(pl, 0)

\* scope.get() and scope.get_vec(): the innermost scope takes one more entry.
ScopeGet(pl) == [pl EXCEPT ![Len(pl)] = @ + 1]

\* The innermost scope goes out of scope and hands back what it took; its
\* entries are charged to the scope around it.
ScopeExit_Leaks(pl) ==
    IF Len(pl) = 1 THEN <<>>
    ELSE [SubSeq(pl, 1, Len(pl) - 1) EXCEPT ![Len(pl) - 1] = @ + pl[Len(pl)]]

\* The innermost scope goes out of scope and hands back what it took.
ScopeExit(pl) == SubSeq(pl, 1, Len(pl) - 1)

\* A point operation given the pool (add, add_affine, mult2, mult2i,
\* double_of, plus): its temporaries live in a scope of its own.
Callee(pl) == ScopeExit(ScopeGet(ScopeGet(ScopeEnter(pl))))

RECURSIVE CheckedOut(_)
\* Entries out of the pool.
CheckedOut(pl) == IF pl = <<>> THEN 0 ELSE pl[1] + CheckedOut(Tail(pl))

\* Pools a caller may pass in.
PoolsBefore ==
    UNION {[1..n -> 0..MaxHeld] : n \in 0..MaxScopes}

InitPool ==
    /\ eng = "pool"
    /\ NoEngine
    /\ CallIdle
    /\ prev = <<>> /\ points = <<>> /\ points_in = <<>>
    /\ R = Zero(E1) /\ other = Zero(E1)
    /\ data = <<>> /\ format = 0 /\ th = <<>>
    /\ StreamIdle
    /\ drawn = 0 /\ doublings = 0 /\ additions = 0
    /\ pool \in PoolsBefore
    /\ pool_in = pool

\* PointGFp_Var_Point_Precompute(point, rng, ws) is entered.
PoolCtorEnter ==
    /\ eng = "pool" /\ pc = "idle"
    /\ op' = "Var_Point_Precompute" /\ pc' = "table"
    /\ seeded' \in BOOLEAN
    /\ pool_in' = pool
    /\ UNCHANGED <<engVars, k, group_order, scalar, windows, i, R, z1, z2,
                   other, points, points_in, err, ret, rng_calls, max_read,
                   prev, codecVars, concVars, pool,
                   streamVars, drawVars, countVars>>

\* The table is built with double_of and plus; an unseeded RNG skips the
\* masking block.
PoolCtorTable ==
    /\ eng = "pool" /\ pc = "table"
    /\ pool' = Callee(pool)
    /\ pc' = IF seeded THEN "scope" ELSE "flatten"
    /\ UNCHANGED <<engVars, argVars, scalar, windows, i, R, err, ret,
                   rng_calls, max_read, prev, codecVars, concVars, pool_in,
                   streamVars, drawVars, countVars>>

\* mul(k, rng, group_order, ws) of either engine is entered; a negative k and
\* a scalar too long for the table throw before anything is taken.
PoolMulEnter ==
    /\ eng = "pool" /\ pc = "idle"
    /\ \E o \in {"Base_Point_Precompute::mul", "Var_Point_Precompute::mul"},
          neg \in BOOLEAN, long \in BOOLEAN, w \in 0..MaxPoolWindows :
        /\ op' = o
        /\ k' = IF neg THEN -1 ELSE 1
        /\ IF neg
           THEN /\ pc' = "thrown" /\ err' = "Invalid_Argument"
                /\ windows' = 0
           ELSE IF o = "Base_Point_Precompute::mul" /\ long
           THEN /\ pc' = "thrown" /\ err' = "Assertion_Failure"
                /\ windows' = 0
           ELSE /\ pc' = IF o = "Base_Point_Precompute::mul"
                         THEN "loop" ELSE "top"
                /\ err' = ""
                /\ windows' = w
    /\ seeded' \in BOOLEAN
    /\ i' = 0
    /\ pool_in' = pool
    /\ UNCHANGED <<engVars, group_order, scalar, R, z1, z2, other, points,
                   points_in, ret, rng_calls, max_read, prev, codecVars,
                   concVars, pool,
                   streamVars, drawVars, countVars>>

\* One window of the fixed-base loop: add_affine, and in the first window of a
\* seeded call a scope for randomize_repr.
PoolBaseWindow ==
    /\ eng = "pool" /\ op = "Base_Point_Precompute::mul" /\ pc = "loop"
    /\ i /= windows
    /\ pool' = Callee(pool)
    /\ IF i = 0 /\ seeded
       THEN pc' = "scope" /\ i' = i
       ELSE pc' = "loop" /\ i' = i + 1
    /\ UNCHANGED <<engVars, argVars, scalar, windows, R, err, ret, rng_calls,
                   max_read, prev, codecVars, concVars, pool_in,
                   streamVars, drawVars, countVars>>

\* The top window of the variable-point mul: add, then a scope for
\* randomize_repr; a call with no window goes straight to its end.
PoolVarTop ==
    /\ eng = "pool" /\ op = "Var_Point_Precompute::mul" /\ pc = "top"
    /\ IF windows > 0
       THEN pool' = Callee(pool) /\ pc' = "scope"
       ELSE pool' = pool /\ pc' = "loop"
    /\ UNCHANGED <<engVars, argVars, scalar, windows, i, R, err, ret,
                   rng_calls, max_read, prev, codecVars, concVars, pool_in,
                   streamVars, drawVars, countVars>>

\* One further window of the variable-point mul: mult2i and add.
PoolVarWindow ==
    /\ eng = "pool" /\ op = "Var_Point_Precompute::mul" /\ pc = "loop"
    /\ windows > 0
    /\ pool' = Callee(Callee(pool))
    /\ windows' = windows - 1
    /\ UNCHANGED <<engVars, argVars, pc, scalar, i, R, err, ret, rng_calls,
                   max_read, prev, codecVars, concVars, pool_in,
                   streamVars, drawVars, countVars>>

\* auto scope = pool.scope()
PoolScopeEnter ==
    /\ eng = "pool" /\ pc = "scope"
    /\ pool' = ScopeEnter(pool)
    /\ pc' = "get"
    /\ rng_calls' = 0
    /\ UNCHANGED <<engVars, argVars, scalar, windows, i, R, err, ret,
                   max_read, prev, codecVars, concVars, pool_in,
                   streamVars, drawVars, countVars>>

\* Values the call in progress takes from the scope it opened.
Temporaries == IF op = "Var_Point_Precompute" THEN CtorTemporaries ELSE 1

\* scope.get() or scope.get_vec()
PoolScopeGet ==
    /\ eng = "pool" /\ pc = "get"
    /\ rng_calls < Temporaries
    /\ pool' = ScopeGet(pool)
    /\ rng_calls' = rng_calls + 1
    /\ UNCHANGED <<engVars, argVars, pc, scalar, windows, i, R, err, ret,
                   max_read, prev, codecVars, concVars, pool_in,
                   streamVars, drawVars, countVars>>

\* The closing brace of the block that opened the scope.
PoolScopeExit ==
    /\ eng = "pool" /\ pc = "get"
    /\ rng_calls = Temporaries
    /\ pool' = ScopeExit(pool)
    /\ rng_calls' = 0
    /\ IF op = "Var_Point_Precompute"
       THEN pc' = "flatten" /\ i' = i /\ windows' = windows
       ELSE IF op = "Base_Point_Precompute::mul"
       THEN pc' = "loop" /\ i' = i + 1 /\ windows' = windows
       ELSE pc' = "loop" /\ i' = i /\ windows' = windows - 1
    /\ UNCHANGED <<engVars, argVars, scalar, R, err, ret, max_read, prev,
                   codecVars, concVars, pool_in,
                   streamVars, drawVars, countVars>>

\* The call returns: the constructor after filling m_T, a mul after its last
\* window.
PoolReturn ==
    /\ eng = "pool"
    /\ \/ pc = "flatten"
       \/ pc = "loop" /\ op = "Base_Point_Precompute::mul" /\ i = windows
       \/ pc = "loop" /\ op = "Var_Point_Precompute::mul" /\ windows = 0
    /\ pc' = "done"
    /\ UNCHANGED <<engVars, argVars, scalar, windows, i, R, err, ret,
                   rng_calls, max_read, prev, codecVars, concVars, poolVars, streamVars, drawVars, countVars>>

PoolEnd ==
    /\ eng = "pool" /\ pc \in {"done", "thrown"}
    /\ op' = "" /\ pc' = "idle" /\ err' = "" /\ k' = 0 /\ seeded' = FALSE
    /\ windows' = 0 /\ i' = 0
    /\ UNCHANGED <<engVars, group_order, scalar, R, z1, z2, other, points,
                   points_in, ret, rng_calls, max_read, prev, codecVars,
                   concVars, poolVars, streamVars, drawVars, countVars>>

NextPool ==
    \/ PoolCtorEnter \/ PoolCtorTable \/ PoolMulEnter \/ PoolBaseWindow
    \/ PoolVarTop \/ PoolVarWindow \/ PoolScopeEnter \/ PoolScopeGet
    \/ PoolScopeExit \/ PoolReturn \/ PoolEnd

SpecPool == InitPool /\ [][NextPool]_vars

\* -------------------------------------------------------------- TLS stream

\* Largest user buffer, in bytes.
MaxBuf == 2

\* Most bytes one read from the next layer delivers.
MaxRead == 2

\* boost::system::error_code: "" is the unset code.
NoError == ""

\* hasReceivedData()
hasReceivedData(rb) == rb > 0

\* copyReceivedData(buffers): buffer_copy moves what fits and consume drops it
\* from the receive buffer.
copyReceivedData(rb, buffers) ==
    LET copiedBytes == IF buffers < rb THEN buffers ELSE rb
    IN  [copiedBytes |-> copiedBytes, rb |-> rb - copiedBytes]

\* What m_nextLayer.read_some(input_buffer(), ec) can do: deliver one or more
\* bytes, or fail.
NextLayerReads ==
    {[ec |-> NoError, n |-> n] : n \in 1..MaxRead}
        \cup {[ec |-> "eof", n |-> 0]}

\* What native_handle()->received_data can do with n bytes: every complete
\* application-data record among them reaches tls_record_received, which
\* appends its plaintext to the receive buffer; part of a record, handshake
\* data and alerts append nothing; the channel may throw.
ChannelReceives(n) ==
    {[decrypted |-> d, thrown |-> e] :
        d \in 0..n, e \in {NoError, "TLS_Exception"}}

\* tls_receive_some(ec)
tls_receive_some(rb, nl, ch) ==
    IF nl.ec /= NoError
    THEN [rb |-> rb, ec |-> nl.ec]
    ELSE [rb |-> rb + ch.decrypted, ec |-> ch.thrown]

\* read_some(buffers, ec)
read_some(rb, buffers, nl, ch) ==
    IF hasReceivedData(rb)
    THEN LET c == copyReceivedData(rb, buffers)
         IN  [ret |-> c.copiedBytes, ec |-> NoError, rb |-> c.rb,
              read |-> 0]
    ELSE LET t == tls_receive_some(rb, nl, ch)
             c == copyReceivedData(t.rb, buffers)
         IN  IF t.ec /= NoError
             THEN [ret |-> 0, ec |-> t.ec, rb |-> t.rb, read |-> nl.n]
             ELSE [ret |-> c.copiedBytes, ec |-> NoError, rb |-> c.rb,
                   read |-> nl.n]

\* Record payload bytes one stream is followed through.
MaxArrived == 4

\* StreamCore::tls_record_received(data, size): prepare, buffer_copy and commit
\* put the size bytes of the record behind what the receive buffer holds. The
\* bytes are numbered as they arrive, from first + 1 on. Several records of
\* one received_data call arrive one after the other.
tls_record_received(rd, first, size) == rd \o [n \in 1..size |-> first + n]

\* buffer_copy taking the last bytes of the receive buffer.
CopiedData_Last(rd, copiedBytes) ==
    SubSeq(rd, Len(rd) - copiedBytes + 1, Len(rd))

\* Line 194 of copyReceivedData: buffer_copy fills the caller's buffers from
\* the front of m_receive_buffer.data().
CopiedData(rd, copiedBytes) == SubSeq(rd, 1, copiedBytes)

\* Line 195 of copyReceivedData: consume drops the bytes from the front.
ConsumedData(rd, copiedBytes) == SubSeq(rd, copiedBytes + 1, Len(rd))

\* The bytes after one invocation in which the channel passed appended bytes
\* to tls_record_received and copyReceivedData then copied copiedBytes.
ReceivePath(appended, copiedBytes) ==
    LET rd == tls_record_received(receive_data, arrived, appended)
    IN  [receive_data |-> ConsumedData(rd, copiedBytes),
         copied       |-> CopiedData(rd, copiedBytes),
         arrived      |-> arrived + appended]

\* A connected stream with nothing buffered and nothing in flight.
InitStream ==
    /\ eng = "stream"
    /\ NoEngine
    /\ CallIdle
    /\ prev = <<>> /\ points = <<>> /\ points_in = <<>>
    /\ R = Zero(E1) /\ other = Zero(E1)
    /\ data = <<>> /\ format = 0 /\ th = <<>>
    /\ pool = <<>> /\ pool_in = <<>>
    /\ StreamIdle
    /\ drawn = 0 /\ doublings = 0 /\ additions = 0

\* What the engines, the codec and the pool keep, untouched by the stream.
notStream == <<engVars, argVars, pc, scalar, windows, i, R, err, ret,
               rng_calls, max_read, prev, codecVars, concVars, poolVars,
               drawVars, countVars>>

\* The bytes after an invocation of the operation in flight: a is the
\* operation and rb the receive buffer before it, r what Resume made of them.
\* The handler, when it is called, is given the first handler_bytes bytes of
\* the operation's buffers.
AsyncBytes(a, rb, r) ==
    LET copiedBytes == r.aop.m_decodedBytes - a.m_decodedBytes
        b == ReceivePath((r.rb + copiedBytes) - rb, copiedBytes)
        ub == user_buffer \o b.copied
    IN  /\ b.arrived <= MaxArrived
        /\ receive_data' = b.receive_data
        /\ arrived' = b.arrived
        /\ user_buffer' = ub
        /\ delivered' = IF r.aop.calls > a.calls
                        THEN delivered \o SubSeq(ub, 1, r.aop.handler_bytes)
                        ELSE delivered

\* No call has failed: a stream is given up after its first error.
Usable == io.ec = NoError

\* Stream::read_some(buffers, ec)
ReadSome ==
    /\ eng = "stream" /\ aop.co = "absent" /\ Usable
    /\ \E buffers \in 0..MaxBuf, nl \in NextLayerReads :
        \E ch \in ChannelReceives(nl.n) :
            LET r == read_some(m_receive_buffer, buffers, nl, ch)
                b == ReceivePath((r.rb + r.ret) - m_receive_buffer, r.ret)
            IN  /\ b.arrived <= MaxArrived
                /\ m_receive_buffer' = r.rb
                /\ io' = [op |-> "read_some", buffers |-> buffers,
                          ret |-> r.ret, ec |-> r.ec, read |-> r.read,
                          handed |-> 0, before |-> m_receive_buffer]
                /\ receive_data' = b.receive_data
                /\ arrived' = b.arrived
                /\ delivered' = delivered \o b.copied
    /\ UNCHANGED <<notStream, m_send_buffer, aop, user_buffer>>

\* Most buffers in one buffer sequence.
MaxBufs == 2

\* MAX_PLAINTEXT_SIZE, the most plaintext one TLS record carries, scaled down
\* to the buffer sizes in use.
MAX_PLAINTEXT_SIZE == 2

\* Buffer sequences, each buffer by its size.
BufferSequences == UNION {[1..n -> 0..MaxBuf] : n \in 0..MaxBufs}

\* std::min
Min(a, b) == IF a < b THEN a ELSE b

RECURSIVE EncryptFrom(_, _, _, _, _)
\* The loop of tls_encrypt_some from buffer j on, sent bytes counted so far;
\* native_handle()->send throws at buffer throwAt (0: never). handed counts
\* what send() has taken; every byte it takes is encrypted into the send
\* buffer.
EncryptFrom(buffers, j, sent, sb, throwAt) ==
    IF j > Len(buffers)
    THEN [ret |-> sent, ec |-> NoError, sb |-> sb, handed |-> sent]
    ELSE IF sent >= MAX_PLAINTEXT_SIZE
    THEN [ret |-> 0, ec |-> NoError, sb |-> sb, handed |-> sent]
    ELSE IF throwAt = j
    THEN [ret |-> 0, ec |-> "TLS_Exception", sb |-> sb, handed |-> sent]
    ELSE LET amount == Min(MAX_PLAINTEXT_SIZE - sent, buffers[j])
         IN  EncryptFrom(buffers, j + 1, sent + amount, sb + amount, throwAt)

\* tls_encrypt_some(buffers, ec)
tls_encrypt_some(buffers, sb, throwAt) == EncryptFrom(buffers, 1, 0, sb, throwAt)

\* What boost::asio::write(m_nextLayer, sendBuffer(), ec) can do: write all of
\* it, or fail after part of it.
NextLayerWrites(sb) ==
    {[ec |-> NoError, writtenBytes |-> sb]}
        \cup {[ec |-> "broken_pipe", writtenBytes |-> w] : w \in 0..sb}

\* sendPendingEncryptedData(ec)
sendPendingEncryptedData(sb, nw) == [sb |-> sb - nw.writtenBytes, ec |-> nw.ec]

\* write_some(buffers, ec)
write_some(buffers, sb, throwAt, nw) ==
    LET e == tls_encrypt_some(buffers, sb, throwAt)
        w == sendPendingEncryptedData(e.sb, nw)
    IN  IF e.ec /= NoError
        THEN [ret |-> 0, ec |-> e.ec, sb |-> e.sb, handed |-> e.handed]
        ELSE IF w.ec /= NoError
        THEN [ret |-> 0, ec |-> w.ec, sb |-> w.sb, handed |-> e.handed]
        ELSE [ret |-> e.ret, ec |-> NoError, sb |-> w.sb, handed |-> e.handed]

\* Stream::write_some(buffers, ec)
WriteSome ==
    /\ eng = "stream" /\ aop.co = "absent" /\ Usable
    /\ \E buffers \in BufferSequences, throwAt \in 0..MaxBufs :
        \E nw \in NextLayerWrites(
                    tls_encrypt_some(buffers, m_send_buffer, throwAt).sb) :
            LET r == write_some(buffers, m_send_buffer, throwAt, nw)
            IN  /\ m_send_buffer' = r.sb
                /\ io' = [op |-> "write_some", buffers |-> buffers,
                          ret |-> r.ret, ec |-> r.ec, read |-> 0,
                          handed |-> r.handed, before |-> m_send_buffer]
    /\ UNCHANGED <<notStream, m_receive_buffer, aop, byteVars>>

\* The first invocation, made by the constructor, must not reach the handler
\* itself.
NeedsIntermediate_Never(isContinuation) == FALSE

\* The first invocation, made by the constructor, must not reach the handler
\* itself.
NeedsIntermediate(isContinuation) == ~isContinuation

\* complete_now(ec, bytes): the handler is called, from inside the call that
\* is running.
complete_now(a, ec, isContinuation) ==
    [a EXCEPT !.pending = "none",
              !.calls = @ + 1,
              !.handler_ec = ec,
              !.handler_bytes = a.m_decodedBytes,
              !.direct = ~isContinuation]

\* AsyncReadOperation::operator()(ec, bytes_transferred, isContinuation) on
\* operation a with rb bytes in the receive buffer; ch is what the channel does
\* if it is given the bytes. A coroutine that yielded goes on after the yield;
\* one that only returned starts from the top again.
Resume(a, rb, ec, bytes_transferred, isContinuation, ch) ==
    IF a.co = "yield"
    THEN [aop |-> complete_now([a EXCEPT !.co = "end"], a.m_ec,
                               isContinuation),
          rb |-> rb]
    ELSE
    LET decrypt == bytes_transferred > 0 /\ ec = NoError
        ec1 == IF decrypt THEN ch.thrown ELSE ec
        rb1 == IF decrypt THEN rb + ch.decrypted ELSE rb
        copy == hasReceivedData(rb1) /\ ec1 = NoError
        c == copyReceivedData(rb1, a.buffers)
        a2 == IF copy THEN [a EXCEPT !.m_decodedBytes = c.copiedBytes]
              ELSE a
        rb2 == IF copy THEN c.rb ELSE rb1
    IN  IF ~hasReceivedData(rb1) /\ ec1 = NoError /\ a.buffers > 0
        THEN [aop |-> [a EXCEPT !.pending = "data",
                                !.reads = @ + 1],
              rb |-> rb1]
        ELSE IF NeedsIntermediate(isContinuation)
        THEN [aop |-> [a2 EXCEPT !.m_ec = ec1, !.co = "yield",
                                 !.pending = "zero"],
              rb |-> rb2]
        ELSE [aop |-> complete_now([a2 EXCEPT !.co = "end"], ec1,
                                   isContinuation),
              rb |-> rb2]

\* Reads from the next layer one operation is followed through.
MaxReads == 2

\* Stream::async_read_some(buffers, handler): the operation is constructed and
\* its constructor makes the first invocation, with the error code it was
\* given (none by default) and no bytes.
AsyncReadSome ==
    /\ eng = "stream" /\ aop.co = "absent" /\ Usable
    /\ \E buffers \in 0..MaxBuf, ec \in {NoError, "operation_aborted"} :
        LET a == [buffers |-> buffers, m_decodedBytes |-> 0,
                  m_ec |-> NoError, co |-> "start", pending |-> "none",
                  calls |-> 0, handler_ec |-> NoError, handler_bytes |-> 0,
                  direct |-> FALSE, reads |-> 0, given |-> ec,
                  before |-> m_receive_buffer]
            r == Resume(a, m_receive_buffer, ec, 0, FALSE,
                        [decrypted |-> 0, thrown |-> NoError])
        IN  /\ aop' = r.aop
            /\ m_receive_buffer' = r.rb
            /\ AsyncBytes(a, m_receive_buffer, r)
    /\ UNCHANGED <<notStream, m_send_buffer, io>>

\* The read from the next layer that the operation waits for completes and
\* invokes the operation.
NextLayerCompletes ==
    /\ eng = "stream" /\ aop.co /= "absent"
    /\ \/ /\ aop.pending = "data"
          /\ \E nl \in NextLayerReads :
              /\ aop.reads = MaxReads => nl.ec /= NoError
              /\ \E ch \in ChannelReceives(nl.n) :
                  LET r == Resume(aop, m_receive_buffer, nl.ec, nl.n, TRUE, ch)
                  IN  /\ aop' = r.aop
                      /\ m_receive_buffer' = r.rb
                      /\ AsyncBytes(aop, m_receive_buffer, r)
       \/ /\ aop.pending = "zero"
          /\ \E ec \in {NoError, "eof"} :
              LET r == Resume(aop, m_receive_buffer, ec, 0, TRUE,
                              [decrypted |-> 0, thrown |-> NoError])
              IN  /\ aop' = r.aop
                  /\ m_receive_buffer' = r.rb
                  /\ AsyncBytes(aop, m_receive_buffer, r)
    /\ UNCHANGED <<notStream, m_send_buffer, io>>

\* The handler has run and the operation is gone.
AsyncEnd ==
    /\ eng = "stream" /\ aop.co /= "absent"
    /\ aop.pending = "none"
    /\ io' = [op |-> "async_read_some", buffers |-> aop.buffers,
              ret |-> aop.handler_bytes, ec |-> aop.handler_ec,
              read |-> aop.reads, handed |-> 0, before |-> aop.before]
    /\ aop' = NoOperation
    /\ user_buffer' = <<>>
    /\ UNCHANGED <<notStream, m_receive_buffer, m_send_buffer, receive_data,
                   arrived, delivered>>

NextStream ==
    \/ ReadSome \/ WriteSome \/ AsyncReadSome \/ NextLayerCompletes
    \/ AsyncEnd

SpecStream == InitStream /\ [][NextStream]_vars

\* Both scalar-multiplication engines.
InitMul == InitBase \/ InitVar

NextMul == NextBase \/ NextVar

SpecMul == InitMul /\ [][NextMul]_vars

\* The two engines that add with add_affine operands taken from a table of
\* points made affine: the fixed-base one and the multi-scalar one.
InitMixed == InitBase \/ InitMulti

NextMixed == NextBase \/ NextMulti

SpecMixed == InitMixed /\ [][NextMixed]_vars

Init ==
    \/ InitBase \/ InitVar \/ InitMulti \/ InitPoint \/ InitPair \/ InitCodec
    \/ InitConc \/ InitPool \/ InitStream

Next ==
    \/ NextBase \/ NextVar \/ NextMulti \/ NextPoint \/ NextPair \/ NextCodec
    \/ NextConc \/ NextPool \/ NextStream

Spec == Init /\ [][Next]_vars

\* ------------------------------------------------------------------- claims

\* z * P for a signed z.
SignedMul(z, P) == IF z < 0 THEN negate(RefMul(0 - z, P)) ELSE RefMul(z, P)

\* The call in progress was made with the group order the engine's point has.
WellFormed == group_order = Order(m_base_point)

\* C1: for points x, y on the curve and all integers z1, z2, negative ones
\* included, multi_exp(z1, z2) returns a point equal to z1*x + z2*y.
C1_MultiExpIsSignedSum ==
    (eng = "multi" /\ pc = "done" /\ on_the_curve(m_base_point)
        /\ on_the_curve(other))
    => PointEq(ret[1], add(SignedMul(z1, m_base_point), SignedMul(z2, other)))

\* C2: a fixed-base mul called with k >= 0 and the group order of the base
\* point (the one the reducer was built for) returns a point, and that point
\* equals k applications of +P from the zero point, with and without entropy.
C2_BaseMulIsRepeatedAddition ==
    (eng = "base" /\ pc /= "idle" /\ WellFormed /\ ~is_negative(k))
    => /\ pc \in {"loop", "done"}
       /\ pc = "done" => PointEq(ret[1], RefMul(k, m_base_point))

\* A blinded two-window fixed-base call with k above the order has returned.
C2_Witness ==
    /\ eng = "base" /\ pc = "done" /\ WellFormed /\ seeded
    /\ k > group_order /\ scalar > 2 * group_order /\ i = 2

\* C3: a variable-point mul called with k >= 0 and the order of the point
\* returns a point equal to k applications of +P from the zero point, for
\* every mask and for randomized and unrandomized tables.
C3_VarMulIsRepeatedAddition ==
    (eng = "var" /\ pc /= "idle" /\ ~is_negative(k))
    => /\ pc \in {"top", "loop", "done"}
       /\ pc = "done" => PointEq(ret[1], RefMul(k, m_base_point))

\* A call on a randomized table has returned after more than one window.
C3_Witness ==
    /\ eng = "var" /\ pc = "done" /\ k > 1 /\ scalar >= 2 ^ m_window_bits
    /\ m_curve = E1
    /\ m_T /= VarPrecompute(m_base_point, [seeded |-> FALSE, seed |-> 0]).m_T

\* C5: in both engines mul(0) is the zero point, mul(1) equals P and
\* mul(group_order) is the zero point, for every mask (0 included) and on the
\* padding path.
C5_SpecialScalars ==
    (eng \in {"base", "var"} /\ pc = "done" /\ WellFormed)
    => /\ k = 0 => is_zero(ret[1])
       /\ k = 1 => PointEq(ret[1], m_base_point)
       /\ k = group_order => is_zero(ret[1])

\* mul(0) has returned after a mask of 0: the blinded scalar is 0 and no
\* window was processed.
C5_Witness ==
    /\ eng = "var" /\ pc = "done" /\ k = 0 /\ scalar = 0 /\ is_zero(ret[1])

\* Windows the fixed-base table was built for.
TableWindows == Len(m_W) \div (WINDOW_SIZE * 2 * m_p_words)

\* C6: a fixed-base call whose window count exceeds the windows the table
\* was built for fails at the window-count check, and no index read from m_W
\* reaches m_W.size().
C6_NoReadPastTable ==
    eng = "base"
    => /\ max_read < Len(m_W)
       /\ (pc /= "idle" /\ ~is_negative(k) /\ windows > TableWindows)
             => (pc = "thrown" /\ err = "Assertion_Failure")

\* The table of the engine is the one its constructor built.
TableAsBuilt ==
    /\ eng = "base" => m_W = BasePrecompute(m_base_point, m_mod_order).m_W
    /\ eng = "var" => \E rng \in TableRngs :
                          m_T = VarPrecompute(m_base_point, rng).m_T

\* C7: a negative scalar makes either mul fail with Invalid_Argument before
\* the RNG is used and before a table entry is read, no point is returned and
\* the table is as built.
C7_NegativeScalarRejected ==
    (eng \in {"base", "var"} /\ pc /= "idle" /\ is_negative(k))
    => /\ pc = "thrown" /\ err = "Invalid_Argument"
       /\ rng_calls = 0 /\ max_read = -1 /\ ret = <<>>
       /\ TableAsBuilt

\* A variable-point call with a negative scalar has failed.
C7_Witness ==
    /\ eng = "var" /\ pc = "thrown" /\ is_negative(k)
    /\ err = "Invalid_Argument"

\* C9: when x or y is off the curve the table is the single zero point and
\* multi_exp returns the zero point for every (z1, z2), reading entry 0 only.
C9_FailsClosed ==
    (eng = "multi" /\ (~on_the_curve(m_base_point) \/ ~on_the_curve(other)))
    => /\ Len(m_M) = 1 /\ is_zero(m_M[1])
       /\ pc \in {"idle", "done"}
       /\ pc = "done" => (is_zero(ret[1]) /\ max_read = 0)

\* multi_exp has returned for non-zero scalars on an engine whose second
\* point is off the curve.
C9_Witness ==
    /\ eng = "multi" /\ pc = "done" /\ on_the_curve(m_base_point)
    /\ ~on_the_curve(other) /\ z1 > 0 /\ z2 < 0 /\ ret = <<Zero(E1)>>

\* C4: two calls with the same scalar, point and group order, by either
\* engine and with any mask, factor and seeding, return equal points.
C4_ResultIndependentOfRandomness ==
    (eng = "pair" /\ ret /= <<>> /\ prev /= <<>>)
    => PointEq(ret[1], prev[1])

\* A variable-point call after a fixed-base call returned the same point in
\* another representation.
C4_Witness ==
    /\ eng = "pair" /\ ret /= <<>> /\ prev /= <<>> /\ k > 1
    /\ op = "var_mul" /\ prev[2] = "base_mul"
    /\ ret[1] /= prev[1] /\ ~is_zero(ret[1])

\* C8: add, plus and add_affine with a point of another curve (by value of
\* p, a, b) all fail with Invalid_Argument and leave X, Y, Z of the receiver
\* as they were.
C8_CrossCurveInvalidArgument ==
    [][(eng = "point" /\ pc = "idle" /\ pc' /= "idle"
            /\ op' \in {"add", "plus", "add_affine"}
            /\ ~SameCurve(R.curve, other.curve))
        => (pc' = "thrown" /\ err' = "Invalid_Argument" /\ R' = R)]_vars

\* C10: force_all_affine leaves every point of a list of non-zero points
\* with Z = 1 and the affine coordinates the point has when converted alone.
C10_BatchAffineIsIndividual ==
    (eng = "point" /\ pc = "done" /\ op = "force_all_affine")
    => /\ Len(points) = Len(points_in)
       /\ \A n \in 1..Len(points) :
            /\ points[n].z = 1
            /\ points[n] = force_affine(points_in[n])
            /\ points[n].x = get_affine_x(points_in[n])
            /\ points[n].y = get_affine_y(points_in[n])

\* A list of three points, none in affine form and not all the same, has
\* been converted.
C10_Witness ==
    /\ eng = "point" /\ pc = "done" /\ op = "force_all_affine"
    /\ Len(points_in) = 3
    /\ \A n \in 1..3 : points_in[n].z /= 1
    /\ points[1] /= points[2] /\ points[2] /= points[3]

\* C11: the decoding of the encoding of a non-zero point, in each of the
\* three formats and on the same curve, succeeds and equals the point.
C11_DecodeOfEncodeIsPoint ==
    (eng = "codec" /\ op = "OS2ECP" /\ data = encode(R, format))
    => (pc = "done" /\ PointEq(ret[1], R))

\* The compressed encoding of a point that is not in affine form and whose
\* Y is odd has been decoded.
C11_Witness ==
    /\ eng = "codec" /\ op = "OS2ECP" /\ pc = "done"
    /\ format = COMPRESSED /\ data = encode(R, format)
    /\ R.z /= 1 /\ get_affine_y(R) % 2 = 1

\* C12: the point operator- returns for P has X and Z of P and Y replaced by
\* p - Y (P itself when P is the zero point), and P plus that point is the
\* zero point.
C12_PointPlusNegationIsZero ==
    (eng = "point" /\ op = "operator+" /\ pc = "done")
    => /\ other = (IF is_zero(R) THEN R
                   ELSE Pt(R.curve, R.x, R.curve.p - R.y, R.z))
       /\ is_zero(ret[1])

\* A point of order 6 that is not in affine form has been added to its
\* negation.
C12_Witness ==
    /\ eng = "point" /\ op = "operator+" /\ pc = "done"
    /\ R.curve = E2 /\ R.z /= 1 /\ R.y /= 0 /\ ~is_zero(mult2(R))
    /\ ~is_zero(add(mult2(R), R))

\* Entry n of the variable-point table, read back from its words.
TableEntry(n) ==
    LET at(j) == SubSeq(m_T, (3 * n + j) * m_p_words + 1,
                        (3 * n + j + 1) * m_p_words)
    IN  Pt(m_curve, FromWords(at(0)), FromWords(at(1)), FromWords(at(2)))

\* C13: every entry 1..15 of the variable-point table represents the same
\* affine point as the unrandomized multiple of the point, the accumulator
\* randomized after the top window represents the table entry that window
\* selected, and no factor is zero modulo p.
C13_RandomizationKeepsAffinePoint ==
    eng = "var"
    => /\ \A n \in 1..(2 ^ m_window_bits - 1) :
            PointEq(TableEntry(n), VarEntry(m_base_point, n))
       /\ (pc = "loop" /\ windows + 1 = VarWindows(scalar))
            => PointEq(R, VarEntry(m_base_point,
                              get_substring(scalar, windows * m_window_bits,
                                            m_window_bits)))
       /\ \A r \in Factors(m_curve) : Mod(r, m_curve.p) /= 0

\* A table whose entry 1 is not the point's own coordinates, and an
\* accumulator that is not the coordinates of the selected table entry.
C13_Witness ==
    /\ eng = "var" /\ pc = "loop" /\ windows + 1 = VarWindows(scalar)
    /\ TableEntry(1) /= m_base_point
    /\ ~is_zero(R)
    /\ R /= TableEntry(get_substring(scalar, windows * m_window_bits,
                                     m_window_bits))

\* The point the call of a caller with locals l returns when no other call
\* runs beside it.
AloneResult(l) ==
    IF eng = "shared_base"
    THEN BaseMulResult(l.k, m_mod_order, l.sd, l.mask, l.r)
    ELSE IF eng = "shared_var" THEN VarMulResult(l.k, m_mod_order, l.mask, l.r)
    ELSE MultiExpResult(l.k, l.z2)

\* C14: while callers run mul or multi_exp on one engine in any
\* interleaving, the table and the stored point stay as the constructor
\* left them, and every call returns the point it returns when run alone.
C14_SharedEngineIsImmutable ==
    eng \in ConcKinds
    => /\ m_base_point = ConcPoint
       /\ eng = "shared_base"
            => m_W = BasePrecompute(ConcPoint, Order(ConcPoint)).m_W
       /\ eng = "shared_var"
            => \E rng \in TableRngs : m_T = VarPrecompute(ConcPoint, rng).m_T
       /\ eng = "shared_multi"
            => m_M = MultiPrecompute(ConcPoint, ConcOther, FALSE).m_M
       /\ \A t \in Threads :
            th[t].pc = "done" => th[t].ret = <<AloneResult(th[t])>>

\* One caller has returned from a seeded fixed-base call while the other is
\* inside the loop of a call with another scalar.
C14_Witness ==
    /\ eng = "shared_base"
    /\ th["t1"].pc = "done" /\ th["t1"].sd /\ th["t1"].r /= 1
    /\ th["t2"].pc = "loop" /\ th["t2"].i = 1 /\ th["t2"].k /= th["t1"].k
\* C15: every value taken from the pool through a scope, in the
\* variable-point constructor or in a mul, is handed back when that scope
\* ends, innermost scope first, on every way out of the call (a negative
\* scalar and a failed assertion included): a call never touches the scopes
\* its caller holds, and when it has ended as many entries are out of the pool
\* as when it was entered.
C15_ScopesGiveBackWhatTheyTook ==
    eng = "pool"
    => /\ Len(pool) >= Len(pool_in)
       /\ SubSeq(pool, 1, Len(pool_in)) = pool_in
       /\ Len(pool) <= Len(pool_in) + 1
       /\ pc \in {"idle", "done", "thrown"}
            => (pool = pool_in /\ CheckedOut(pool) = CheckedOut(pool_in))

\* A seeded constructor has returned to a caller that holds entries of its own.
C15_Witness ==
    /\ eng = "pool" /\ pc = "done" /\ op = "Var_Point_Precompute" /\ seeded
    /\ CheckedOut(pool_in) > 0
    /\ pool = pool_in

\* C16: read_some(buffers, ec) with a non-empty buffer returns only when one
\* or more bytes have been copied into buffers or when ec is set; it never
\* returns 0 with ec unset, not even when the one read from the next layer
\* brought only part of a record, or handshake or alert data.
C16_ReadSomeNeverReturnsZeroUnset ==
    (eng = "stream" /\ io.op = "read_some" /\ io.buffers > 0)
    => (io.ret > 0 \/ io.ec /= NoError)

\* C17: write_some(buffers, ec) returns the number of plaintext bytes handed
\* to the TLS channel, for every buffer sequence: with ec unset the value
\* returned is the sum of the amounts passed to send(), also when buffers
\* follow after MAX_PLAINTEXT_SIZE bytes have been sent, so 0 is returned only
\* on an error or when nothing was sent.
C17_WriteSomeReturnsBytesHanded ==
    (eng = "stream" /\ io.op = "write_some" /\ io.ec = NoError)
    => io.ret = io.handed

\* C18: for every AsyncReadOperation and every sequence of next-layer
\* completions, the handler is invoked exactly once (not at all while a read
\* of the next layer is awaited, once when none is), never from inside the
\* initiating call (an invocation that could complete at once issues a
\* zero-byte read first and delivers the saved error code afterwards), and an
\* invocation with an error reports 0 bytes, no data having been copied by an
\* operation that fails.
C18_HandlerInvokedOnceAndLater ==
    (eng = "stream" /\ aop.co /= "absent")
    => /\ aop.calls = (IF aop.pending = "none" THEN 1 ELSE 0)
       /\ ~aop.direct
       /\ (aop.calls = 1 /\ aop.reads = 0) => aop.handler_ec = aop.given
       /\ (aop.calls = 1 /\ aop.handler_ec /= NoError)
            => (aop.handler_bytes = 0 /\ aop.m_decodedBytes = 0)
       /\ (aop.calls = 1 /\ aop.handler_ec = NoError)
            => aop.handler_bytes = aop.m_decodedBytes

\* Data was waiting when the operation was started: the handler has run with
\* it, after the zero-byte read and not before.
C18_Witness ==
    /\ eng = "stream" /\ aop.co /= "absent"
    /\ aop.before > 0 /\ aop.reads = 0 /\ aop.co = "end"
    /\ aop.calls = 1 /\ aop.handler_bytes > 0 /\ ~aop.direct

\* C19: on the fixed-base path without entropy, for every reduced scalar
\* below group_order the padded scalar (one copy of group_order added, and a
\* second one when the first sum is as long as group_order) is exactly
\* group_order.bits() + 1 bits long, so every scalar has the same number of
\* windows.
C19_PaddedScalarHasFixedLength ==
    (eng = "base" /\ pc /= "idle" /\ ~is_negative(k) /\ ~seeded
        /\ reduce(m_mod_order, k) < group_order)
    => /\ bits(scalar) = bits(group_order) + 1
       /\ windows
            = round_up(bits(group_order) + 1, WINDOW_BITS) \div WINDOW_BITS
       /\ pc = "done" => i = windows

\* An unseeded call that needed the second copy of the order has returned.
C19_Witness ==
    /\ eng = "base" /\ pc = "done" /\ ~seeded /\ k > 0
    /\ bits(reduce(m_mod_order, k) + group_order) = bits(group_order)
    /\ scalar = reduce(m_mod_order, k) + 2 * group_order

\* C20: blinding keeps the scalar modulo the group order. In both engines the
\* scalar whose windows are processed is congruent to k modulo group_order:
\* it is reduce(k) + mask * group_order in the fixed-base engine, the
\* reducer's modulus being group_order, and k + mask * group_order in the
\* variable-point engine, for a mask that is not negative and has at most
\* (group_order.bits() + 1) / 2 bits.
C20_BlindingKeepsResidue ==
    (eng \in {"base", "var"} /\ pc /= "idle" /\ ~is_negative(k) /\ WellFormed)
    => LET start == IF eng = "base" THEN reduce(m_mod_order, k) ELSE k
           mask == (scalar - start) \div group_order
       IN  /\ scalar % group_order = k % group_order
           /\ scalar = start + mask * group_order
           /\ mask >= 0
           /\ (eng = "var" \/ seeded)
                => bits(mask) <= (bits(group_order) + 1) \div 2

\* A seeded fixed-base call with a scalar above the order drew the longest
\* mask there is.
C20_Witness ==
    /\ eng = "base" /\ pc = "loop" /\ seeded /\ WellFormed
    /\ k > group_order
    /\ scalar = reduce(m_mod_order, k)
                  + (2 ^ ((bits(group_order) + 1) \div 2) - 1) * group_order

\* Entry n of the fixed-base table, read as the affine point its words hold.
BaseEntry(n) ==
    LET at(j) == SubSeq(m_W, (2 * n + j) * m_p_words + 1,
                        (2 * n + j + 1) * m_p_words)
    IN  Affine(m_curve, FromWords(at(0)), FromWords(at(1)))

RECURSIVE WindowBase(_)
\* 8^n * base by repeated addition.
WindowBase(n) ==
    IF n = 0 THEN m_base_point ELSE RefMul(8, WindowBase(n - 1))

\* C21: after construction the fixed-base table holds exactly 7 * T_bits
\* affine points, each in 2 * p_words words, and for every window n below
\* T_bits and every j in 1..7 the entry at 7 * n + (j - 1) is the affine
\* (x, y) of j * 2^(3n) * base.
C21_TableHoldsSmallMultiples ==
    (eng = "base" /\ pc = "idle")
    => LET T == T_bits(m_base_point, m_mod_order)
       IN  /\ Len(m_W) = 7 * T * 2 * m_p_words
           /\ \A n \in 0..(T - 1) : \A j \in 1..7 :
                LET want == RefMul(j, WindowBase(n))
                IN  /\ ~is_zero(want)
                    /\ BaseEntry(7 * n + (j - 1))
                         = Affine(m_curve, get_affine_x(want),
                                  get_affine_y(want))

\* An engine whose last entry, 7 * 64 * base, is neither the base point nor
\* the entry before it.
C21_Witness ==
    /\ eng = "base" /\ pc = "idle"
    /\ T_bits(m_base_point, m_mod_order) = 3
    /\ BaseEntry(20) /= BaseEntry(0)
    /\ BaseEntry(20) /= BaseEntry(19)
    /\ PointEq(BaseEntry(20), RefMul(7, WindowBase(2)))

\* C22: the table lookup of the fixed-base mul is oblivious. In every window
\* iteration all 7 entries of the window's block are read, each word once and
\* in the same order whatever the window value is, so two calls with the same
\* number of windows read the same indices; the words selected are those of
\* entry w for w in 1..7 and all zero for w = 0, and then the addition leaves
\* the accumulator as it is.
C22_LookupIsOblivious ==
    (eng = "base" /\ pc = "loop" /\ i < windows
        /\ windows <= TableWindows)
    => LET elem_size == 2 * m_p_words
           window    == windows - i - 1
           base_addr == (WINDOW_SIZE * window) * elem_size
           w  == get_substring(scalar, WINDOW_BITS * window, WINDOW_BITS)
           reads == BaseReads(base_addr, elem_size, w)
           Wt == BaseSelect(base_addr, elem_size, w)
       IN  /\ \A v \in 0..WINDOW_SIZE :
                BaseReads(base_addr, elem_size, v) = reads
           /\ Len(reads) = 7 * elem_size
           /\ {reads[n] : n \in 1..Len(reads)}
                = base_addr..(base_addr + 7 * elem_size - 1)
           /\ w \in 1..7
                => Wt = SubSeq(m_W, base_addr + (w - 1) * elem_size + 1,
                               base_addr + w * elem_size)
           /\ w = 0
                => /\ all_zeros(Wt)
                   /\ BaseAccumulate(R, Wt, FALSE, 1) = R

\* A call is about to look up a window of value 0 below the top one, with a
\* non-zero accumulator.
C22_Witness ==
    /\ eng = "base" /\ pc = "loop" /\ i > 0 /\ i < windows
    /\ windows <= TableWindows
    /\ get_substring(scalar, WINDOW_BITS * (windows - i - 1), WINDOW_BITS) = 0
    /\ ~is_zero(R)
    /\ max_read = BaseLastRead((WINDOW_SIZE * (windows - i)) * 2 * m_p_words,
                               2 * m_p_words)

\* C23: randomize_repr is never applied to the zero point. In the fixed-base
\* and in the variable-point mul, for every point an engine can be built from
\* (points of order 15 or less included), every scalar and every mask, the
\* accumulator is not the zero point when randomize_repr is called on it,
\* directly after the addition of the top window.
C23_RandomizedAccumulatorIsNotZero ==
    /\ (eng = "var" /\ pc = "top" /\ windows > 0)
        => ~is_zero(VarAdd(R, VarSelect(3 * m_p_words,
                get_substring(scalar, (windows - 1) * m_window_bits,
                              m_window_bits))))
    /\ (eng = "base" /\ pc = "loop" /\ i = 0 /\ i < windows /\ seeded
            /\ windows <= TableWindows)
        => ~is_zero(BaseAccumulate(R,
                BaseSelect((WINDOW_SIZE * (windows - 1)) * 2 * m_p_words,
                           2 * m_p_words,
                           get_substring(scalar, WINDOW_BITS * (windows - 1),
                                         WINDOW_BITS)),
                FALSE, 1))

\* C24: the variable-point mul blinds the scalar on every call, seeded or not:
\* a mask is drawn from the RNG and the windows processed are those of
\* k + mask * group_order, which is k itself only for the mask 0; there is no
\* unblinded path and none that only pads.
C24_VarMulAlwaysBlinds ==
    (eng = "var" /\ pc \notin {"idle", "thrown"})
    => /\ rng_calls >= 1
       /\ drawn \in 0..(2 ^ blinding_size(group_order) - 1)
       /\ scalar = k + drawn * group_order
       /\ scalar = k => drawn = 0
       /\ pc = "top"
            => windows = round_up(bits(k + drawn * group_order), 4) \div 4

\* A call with an unseeded RNG has returned after working on the scalar
\* blinded with a mask above 1.
C24_Witness ==
    /\ eng = "var" /\ pc = "done" /\ ~seeded /\ drawn > 1 /\ k > 0
    /\ scalar = k + drawn * group_order

\* Windows of the blinded scalar of the running variable-point call.
VarTotal == round_up(bits(scalar), m_window_bits) \div m_window_bits

\* C25: the variable-point mul works through the blinded scalar in 4-bit
\* windows from the top. The top window is added into the zero accumulator
\* with no doubling before it, every later window has exactly 4 doublings
\* before it and one table addition after them, and the loop ends after
\* ceil(bits / 4) additions and 4 * (ceil(bits / 4) - 1) doublings, counts
\* that depend on the bit-length of the blinded scalar only; each lookup reads
\* all of entries 1..15.
C25_VarMulWindowSchedule ==
    (eng = "var" /\ pc \in {"loop", "done"})
    => LET elem_size == 3 * m_p_words
       IN  /\ additions = VarTotal - windows
           /\ doublings = IF additions = 0 THEN 0 ELSE 4 * (additions - 1)
           /\ pc = "done"
                => /\ windows = 0
                   /\ additions = (bits(scalar) + 3) \div 4
                   /\ doublings
                        = IF scalar = 0 THEN 0
                          ELSE 4 * ((bits(scalar) + 3) \div 4 - 1)
           /\ (pc = "loop" /\ windows > 0)
                => LET reads == VarReads(elem_size,
                                    get_substring(scalar,
                                        (windows - 1) * m_window_bits,
                                        m_window_bits))
                   IN  /\ \A v \in 0..15 : VarReads(elem_size, v) = reads
                       /\ Len(reads) = 15 * elem_size
                       /\ \A n \in 1..Len(reads) :
                            reads[n] = elem_size + (n - 1)
           /\ additions > 0
                => max_read = 16 * elem_size - 1

\* A call with two windows, the lower one of value 0, has returned: two
\* additions, four doublings.
C25_Witness ==
    /\ eng = "var" /\ pc = "done" /\ VarTotal = 2
    /\ get_substring(scalar, 0, m_window_bits) = 0
    /\ additions = 2 /\ doublings = 4


\* Steps of the multi_exp loop, among the first n, whose two 2-bit digits are
\* not both zero; the digits are taken from the top of the z_bits bits down.
NonZeroSteps(n) ==
    Cardinality({s \in 1..n :
        (4 * get_substring(z2, windows - 2 * s, 2))
            + get_substring(z1, windows - 2 * s, 2) /= 0})

\* The digit schedule of multi_exp: after n steps there were two doublings
\* before every step but the first and one addition per step whose digits are
\* not both zero.
MultiDigitSchedule ==
    (eng = "multi" /\ pc \in {"loop", "done"} /\ Len(m_M) /= 1)
    => /\ doublings = IF i = 0 THEN 0 ELSE i - 2
       /\ additions = NonZeroSteps(i \div 2)
       /\ pc = "done" => i = round_up(Max(bits(z1), bits(z2)), 2)

\* C26: multi_exp negates the accumulated point exactly when the signs of z1
\* and z2 differ, so that for z1 >= 0 > z2 (or z1 < 0 <= z2) the returned
\* point is the signed combination z1*x + z2*y; the digits are taken two bits
\* at a time, most significant first, with two doublings before every step
\* except the first and no addition when both digits are zero.
C26_MixedSignsGiveSignedCombination ==
    /\ MultiDigitSchedule
    /\ (eng = "multi" /\ pc = "done" /\ Len(m_M) /= 1
          /\ is_negative(z1) /= is_negative(z2))
       => PointEq(ret[1], add(SignedMul(z1, m_base_point),
                              SignedMul(z2, other)))


\* The operand the next window iteration of the fixed-base mul hands to
\* add_affine is an affine curve point of the table, or all zero for w = 0.
BaseOperandIsAffine ==
    LET elem_size == 2 * m_p_words
        window    == windows - i - 1
        base_addr == (WINDOW_SIZE * window) * elem_size
        w   == get_substring(scalar, WINDOW_BITS * window, WINDOW_BITS)
        sel == BaseSelect(base_addr, elem_size, w)
        Q   == Affine(m_curve, FromWords(SubSeq(sel, 1, m_p_words)),
                      FromWords(SubSeq(sel, m_p_words + 1, 2 * m_p_words)))
    IN  /\ Len(sel) = elem_size
        /\ IF w = 0
           THEN \A n \in 1..elem_size : sel[n] = 0
           ELSE /\ on_the_curve(Q)
                /\ Q.x < m_curve.p /\ Q.y < m_curve.p
                /\ Q = BaseEntry(WINDOW_SIZE * window + (w - 1))

\* C27: every mixed addition is given an affine operand. Each add_affine of
\* the fixed-base mul receives the (x, y) of a table entry with Z = 1, or the
\* all-zero selection for window value 0. multi_exp calls add_affine only when
\* m_no_infinity holds, and then all 15 entries of m_M are non-identity and
\* have Z = 1; when one of the 15 combinations is the identity the general add
\* is used on the entries as they were built. The entry at index
\* 4 * j + i - 1 is i*x + j*y for all i, j in 0..3 not both zero.
C27_MixedAdditionsGetAffineOperands ==
    /\ (eng = "base" /\ pc = "loop" /\ i < windows
          /\ BaseLastRead((WINDOW_SIZE * (windows - i - 1)) * 2 * m_p_words,
                          2 * m_p_words) < Len(m_W))
       => BaseOperandIsAffine
    /\ (eng = "multi" /\ Len(m_M) /= 1)
       => /\ Len(m_M) = 15
          /\ m_no_infinity <=> \A n \in 1..15 : ~is_zero(m_M[n])
          /\ m_no_infinity => \A n \in 1..15 : is_affine(m_M[n])
          /\ ~m_no_infinity
               => /\ m_M[2] = mult2(m_M[1])
                  /\ m_M[3] = plus(m_M[2], m_M[1])
                  /\ m_M[8] = mult2(m_M[4])
                  /\ m_M[12] = plus(m_M[8], m_M[4])
                  /\ \A jj \in 1..3 : \A ii \in 1..3 :
                       m_M[4 * jj + ii] = plus(m_M[4 * jj], m_M[ii])
          /\ \A jj \in 0..3 : \A ii \in 0..3 :
               (4 * jj) + ii /= 0
               => PointEq(m_M[(4 * jj) + ii],
                          add(RefMul(ii, m_base_point), RefMul(jj, other)))
          /\ (pc = "loop" /\ i /= windows)
               => LET z12 == (4 * get_substring(z2, windows - i - 2, 2))
                               + get_substring(z1, windows - i - 2, 2)
                  IN  (z12 /= 0 /\ m_no_infinity)
                      => is_affine(m_M[z12]) /\ on_the_curve(m_M[z12])

\* A multi_exp on a converted table has returned after two additions, the
\* second of them of the entry 3*y.
C27_Witness ==
    /\ eng = "multi" /\ pc = "done" /\ m_no_infinity /\ Len(m_M) = 15
    /\ additions = 2 /\ max_read = 11
    /\ ~PointEq(m_base_point, other)


\* C28: the fixed-base table covers every well-formed call. When group_order
\* is the modulus the engine was built with and has at most one bit more than
\* p, then for every k >= 0, every mask of at most (bits(group_order) + 1) / 2
\* bits and on the unseeded path the number of windows is at most T_bits, the
\* assertion on the window count does not fail and mul returns a point.
C28_TableCoversWellFormedCalls ==
    (eng = "base" /\ pc /= "idle" /\ ~is_negative(k)
        /\ group_order = m_mod_order
        /\ bits(group_order) <= bits(m_curve.p) + 1)
    => /\ bits(drawn) <= (bits(group_order) + 1) \div 2
       /\ windows = round_up(bits(scalar), WINDOW_BITS) \div WINDOW_BITS
       /\ windows <= T_bits(m_base_point, m_mod_order)
       /\ Len(m_W) = WINDOW_SIZE * T_bits(m_base_point, m_mod_order)
                        * 2 * m_p_words
       /\ max_read < Len(m_W)
       /\ err = ""
       /\ pc \in {"loop", "done"}
       /\ pc = "done" => Len(ret) = 1 /\ on_the_curve(ret[1])

\* A call with the largest mask on the engine whose order is one bit longer
\* than its prime has returned after as many windows as the table has.
C28_Witness ==
    /\ eng = "base" /\ pc = "done" /\ seeded
    /\ group_order = m_mod_order
    /\ bits(group_order) = bits(m_curve.p) + 1
    /\ drawn = 2 ^ ((bits(group_order) + 1) \div 2) - 1
    /\ windows = T_bits(m_base_point, m_mod_order)
    /\ i = windows


\* C29: negate() keeps the coordinates reduced. The negated point has Y in
\* [0, p) again, a non-identity point with Y = 0 included, and X and Z
\* unchanged; the identity is returned as it is; negating twice restores the
\* coordinate triple.
C29_NegateKeepsCoordinatesReduced ==
    (eng = "point" /\ op = "operator-" /\ pc = "done")
    => LET N == ret[1]
       IN  /\ N.x = R.x /\ N.z = R.z
           /\ is_zero(R) => N = R
           /\ negate(N) = R
           /\ (R.y \in 0..(R.curve.p - 1)) => (N.y \in 0..(R.curve.p - 1))


\* The bytes copied into the buffers of an operation whose handler has not
\* been called yet.
InFlight ==
    IF aop.co /= "absent" /\ aop.calls = 0 THEN user_buffer ELSE <<>>

\* C30: the stream delivers decrypted data as an exact byte stream. Over every
\* sequence of records received and of read_some and async_read_some calls,
\* with buffers smaller than a record among them, the bytes given to the
\* callers are a prefix of the record payloads in arrival order, the rest of
\* the payloads is what the receive buffer holds, no byte is lost, duplicated
\* or reordered, and hasReceivedData() is true exactly while bytes that were
\* not copied to a caller remain.
C30_ExactByteStream ==
    eng = "stream"
    => /\ (delivered \o InFlight) \o receive_data = [n \in 1..arrived |-> n]
       /\ Len(receive_data) = m_receive_buffer
       /\ hasReceivedData(m_receive_buffer)
            <=> Len(delivered) + Len(InFlight) < arrived
       /\ (aop.co /= "absent" /\ aop.calls = 1)
            => aop.handler_bytes = Len(user_buffer)
       /\ (io.op = "read_some" /\ aop.co = "absent")
            => /\ io.ret <= Len(delivered)
               /\ io.ret <= io.buffers

\* Three of four payload bytes were given to callers whose buffers were
\* smaller than what had arrived, the last of them by a read_some that took
\* one byte of the two that were waiting; the fourth is in the receive buffer.
C30_Witness ==
    /\ eng = "stream" /\ aop.co = "absent"
    /\ arrived = 4 /\ delivered = <<1, 2, 3>> /\ receive_data = <<4>>
    /\ io.op = "read_some" /\ io.buffers = 1 /\ io.ret = 1 /\ io.before = 2

====
